---------------------------- MODULE Spec2Model ----------------------------
(***************************************************************************)
(* A model of the Elydora Node SDK: the operation-signing pipeline of      *)
(* ElydoraClient (canonical JSON, payload and chain hashes, Ed25519        *)
(* signature, chain head), its HTTP transport (retry loop, backoff,        *)
(* typed errors), and the installer of the CLI with its plugins (files     *)
(* under ~/.elydora, hook lists of the host tool's config).                *)
(*                                                                         *)
(* Representation.  JavaScript strings are TLA+ strings, built with \o.    *)
(* Strings handed to JSON.stringify are drawn from an alphabet that needs  *)
(* no escaping.  SHA-256, base64url and Ed25519 are symbolic: each is an   *)
(* injective constructor of text, so two digests are equal exactly when    *)
(* their inputs are.  Numbers are TLA+ integers; clock readings are kept   *)
(* below 2^31.                                                             *)
(***************************************************************************)
EXTENDS Integers, Sequences, FiniteSets, TLC

VARIABLES
    config,          \* the ElydoraClientConfig handed to the constructor
    prevChainHash,   \* ElydoraClient.prevChainHash, the chain head
    ops,             \* history: one [params, eor] per createOperation that returned
    createThrows,    \* history: number of createOperation calls that threw
    call,            \* the transport call in flight (locals of request / getJWKS)
    suspendedBuilds, \* history: createOperation calls that returned while the
                     \* transport call in flight was waiting at an await
    token,           \* ElydoraClient.token
    probe,           \* the last call of a pure function: its name, input and outcome
    fs               \* the files the installer reads and writes, for one agent

vars == <<config, prevChainHash, ops, createThrows, call, suspendedBuilds, token,
          probe, fs>>

---------------------------------------------------------------------------
(* Bounds of the model *)

\* createOperation calls that return, per behaviour
MaxOps == 2
\* createOperation calls that throw, per behaviour
MaxThrows == 1
\* properties of the objects whose key order is tried
MaxKeys == 2
\* largest config.maxRetries tried (5 is the first value that reaches the 10 s cap)
MaxRetriesCfg == 5

---------------------------------------------------------------------------
(* Program constants *)

DEFAULT_TTL_MS == 30000
DEFAULT_MAX_RETRIES == 3
BACKOFF_BASE_MS == 1000
BACKOFF_CAP_MS == 10000

---------------------------------------------------------------------------
(* Text *)

Digits == <<"0", "1", "2", "3", "4", "5", "6", "7", "8", "9">>

HexDigits == <<"0", "1", "2", "3", "4", "5", "6", "7",
               "8", "9", "a", "b", "c", "d", "e", "f">>

\* Number.prototype.toString for a non-negative integer
RECURSIVE NatToString(_)
NatToString(n) ==
    IF n < 10 THEN Digits[n + 1]
    ELSE NatToString(n \div 10) \o Digits[(n % 10) + 1]

\* `${n}` and JSON.stringify(n) for an integer n
NumberToString(n) == IF n < 0 THEN "-" \o NatToString(0 - n) ELSE NatToString(n)

\* Array.prototype.join
RECURSIVE Join(_, _)
Join(parts, sep) ==
    IF Len(parts) = 0 THEN ""
    ELSE IF Len(parts) = 1 THEN parts[1]
    ELSE parts[1] \o sep \o Join(Tail(parts), sep)

\* The UTF-16 code units of the property names the model uses.  "U+FB01" and
\* "U+1F600" stand for the one-character strings of these code points, the
\* second a surrogate pair.
Utf16 ==
   ("op_version" :> <<111, 112, 95, 118, 101, 114, 115, 105, 111, 110>>) @@
   ("operation_id" :> <<111, 112, 101, 114, 97, 116, 105, 111, 110, 95, 105, 100>>) @@
   ("org_id" :> <<111, 114, 103, 95, 105, 100>>) @@
   ("agent_id" :> <<97, 103, 101, 110, 116, 95, 105, 100>>) @@
   ("issued_at" :> <<105, 115, 115, 117, 101, 100, 95, 97, 116>>) @@
   ("ttl_ms" :> <<116, 116, 108, 95, 109, 115>>) @@
   ("nonce" :> <<110, 111, 110, 99, 101>>) @@
   ("operation_type" :> <<111, 112, 101, 114, 97, 116, 105, 111, 110, 95, 116, 121, 112, 101>>) @@
   ("subject" :> <<115, 117, 98, 106, 101, 99, 116>>) @@
   ("action" :> <<97, 99, 116, 105, 111, 110>>) @@
   ("payload" :> <<112, 97, 121, 108, 111, 97, 100>>) @@
   ("payload_hash" :> <<112, 97, 121, 108, 111, 97, 100, 95, 104, 97, 115, 104>>) @@
   ("prev_chain_hash" :> <<112, 114, 101, 118, 95, 99, 104, 97, 105, 110, 95, 104, 97, 115, 104>>) @@
   ("agent_pubkey_kid" :> <<97, 103, 101, 110, 116, 95, 112, 117, 98, 107, 101, 121, 95, 107, 105, 100>>) @@
   ("signature" :> <<115, 105, 103, 110, 97, 116, 117, 114, 101>>) @@
   ("a" :> <<97>>) @@
   ("b" :> <<98>>) @@
   ("B" :> <<66>>) @@
   ("resource" :> <<114, 101, 115, 111, 117, 114, 99, 101>>) @@
   ("type" :> <<116, 121, 112, 101>>) @@
   ("record_id" :> <<114, 101, 99, 111, 114, 100, 95, 105, 100>>) @@
   ("ab" :> <<97, 98>>) @@
   ("10" :> <<49, 48>>) @@
   ("9" :> <<57>>) @@
   ("U+FB01" :> <<64257>>) @@
   ("U+1F600" :> <<55357, 56832>>)

\* The order of Array.prototype.sort() without a comparator: lexicographic by
\* UTF-16 code units, a proper prefix first.  i is the index compared.
RECURSIVE CodeUnitsLess(_, _, _)
CodeUnitsLess(x, y, i) ==
    IF i > Len(y) THEN FALSE
    ELSE IF i > Len(x) THEN TRUE
    ELSE IF x[i] # y[i] THEN x[i] < y[i]
    ELSE CodeUnitsLess(x, y, i + 1)

StringLess(j, k) == CodeUnitsLess(Utf16[j], Utf16[k], 1)

\* key put at its place in a sorted sequence
RECURSIVE InsertSorted(_, _)
InsertSorted(key, sorted) ==
    IF Len(sorted) = 0 THEN <<key>>
    ELSE IF StringLess(key, sorted[1]) THEN <<key>> \o sorted
    ELSE <<sorted[1]>> \o InsertSorted(key, Tail(sorted))

\* keys left in insertion order
SortStrings_InsertionOrder(keys) == keys

\* keys.sort() for a sequence of distinct strings
RECURSIVE SortStrings(_)
SortStrings(keys) ==
    IF Len(keys) = 0 THEN <<>>
    ELSE InsertSorted(keys[1], SortStrings(Tail(keys)))

---------------------------------------------------------------------------
(* JavaScript values *)

Null == [t |-> "null"]
Undefined == [t |-> "undefined"]
Bool(b) == [t |-> "boolean", v |-> b]
Num(n) == [t |-> "number", v |-> n]
Str(s) == [t |-> "string", v |-> s]
Arr(elements) == [t |-> "array", v |-> elements]
\* an object is its own properties in insertion order: <<key, value>> pairs
Obj(properties) == [t |-> "object", v |-> properties]
\* the non-finite numbers
NaN == [t |-> "NaN"]
PosInfinity == [t |-> "Infinity"]
NegInfinity == [t |-> "-Infinity"]
\* a BigInt
BigInt == [t |-> "bigint"]
\* typeof value === 'number'
IsNumber(value) == value.t \in {"number", "NaN", "Infinity", "-Infinity"}

\* Object.keys(obj)
ObjectKeys(obj) == [i \in 1..Len(obj.v) |-> obj.v[i][1]]

\* obj[key], for a key of Object.keys(obj)
Get(obj, key) == obj.v[CHOOSE i \in 1..Len(obj.v) : obj.v[i][1] = key][2]

\* the string or number that obj[key] holds
Field(obj, key) == Get(obj, key).v

\* a ?? b
Nullish(a, b) == IF a = Null \/ a = Undefined THEN b ELSE a

\* JSON.stringify of a string without characters to escape
JSONStringifyString(s) == "\"" \o s \o "\""

\* JSON.stringify of a number: null for NaN and the infinities
JSONStringifyNumber(value) ==
    IF value.t = "number" THEN NumberToString(value.v) ELSE "null"

\* jcsCanonicalise throws: a BigInt is of none of the types tested and reaches
\* the last JSON.stringify(value), which raises a TypeError for it; within an
\* array or as the value of a key the recursive call throws
RECURSIVE jcsThrows(_)
jcsThrows(value) ==
    IF value.t = "bigint" THEN TRUE
    ELSE IF value.t = "array"
    THEN \E i \in 1..Len(value.v) : jcsThrows(value.v[i])
    ELSE IF value.t = "object"
    THEN \E i \in 1..Len(value.v) : jcsThrows(value.v[i][2])
    ELSE FALSE

\* jcsCanonicalise; jcsPairs is its loop over the sorted keys of an object,
\* which pushes "key":value for each key whose value is not undefined
RECURSIVE jcsCanonicalise(_)
RECURSIVE jcsElements(_)
RECURSIVE jcsPairs(_, _)
jcsCanonicalise(value) ==
    IF value = Null \/ value = Undefined THEN "null"
    ELSE IF value.t = "boolean" THEN (IF value.v THEN "true" ELSE "false")
    ELSE IF IsNumber(value) THEN JSONStringifyNumber(value)
    ELSE IF value.t = "string" THEN JSONStringifyString(value.v)
    ELSE IF value.t = "array" THEN "[" \o Join(jcsElements(value.v), ",") \o "]"
    ELSE "{" \o Join(jcsPairs(value, SortStrings(ObjectKeys(value))), ",") \o "}"

jcsElements(elements) ==
    IF Len(elements) = 0 THEN <<>>
    ELSE <<jcsCanonicalise(elements[1])>> \o jcsElements(Tail(elements))

\* a loop that pushes every key, the undefined-valued ones as null
RECURSIVE jcsPairs_NullForUndefined(_, _)
jcsPairs_NullForUndefined(obj, keys) ==
    IF Len(keys) = 0 THEN <<>>
    ELSE <<JSONStringifyString(keys[1]) \o ":" \o jcsCanonicalise(Get(obj, keys[1]))>>
            \o jcsPairs_NullForUndefined(obj, Tail(keys))

jcsPairs(obj, keys) ==
    IF Len(keys) = 0 THEN <<>>
    ELSE IF Get(obj, keys[1]) # Undefined
    THEN <<JSONStringifyString(keys[1]) \o ":" \o jcsCanonicalise(Get(obj, keys[1]))>>
            \o jcsPairs(obj, Tail(keys))
    ELSE jcsPairs(obj, Tail(keys))

---------------------------------------------------------------------------
(* Hashes and signatures (crypto.ts, appended to cli.ts in this tree) *)

\* Buffer.from(s, 'utf-8')
Utf8(s) == "utf8(" \o s \o ")"

\* crypto.createHash('sha256').update(input).digest()
Sha256(input) == "sha256(" \o input \o ")"

\* base64urlEncode
base64urlEncode(data) == "b64u(" \o data \o ")"

\* sha256Base64url of a string
sha256Base64url(data) == base64urlEncode(Sha256(Utf8(data)))

\* ZERO_CHAIN_HASH: the digest of Buffer.alloc(32, 0)
ZERO_CHAIN_HASH == base64urlEncode(Sha256("bytes(00*32)"))

\* computeChainHash
computeChainHash(prev, payloadHash, operationId, issuedAt) ==
    sha256Base64url(prev \o "|" \o payloadHash \o "|" \o operationId \o "|"
                        \o NumberToString(issuedAt))

\* a payload hash that takes the empty string for a null payload
computePayloadHash_EmptyForNull(payload) ==
    IF payload = Null
    THEN sha256Base64url("")
    ELSE sha256Base64url(jcsCanonicalise(payload))

\* computePayloadHash
computePayloadHash(payload) == sha256Base64url(jcsCanonicalise(payload))

\* A private key string is modelled by the seed it decodes to and the number of
\* bytes of that seed.
\* importPrivateKey: the DER built from the prefix and the seed is a PKCS8
\* Ed25519 key only when the seed has the 32 bytes the prefix announces; with
\* fewer bytes crypto.createPrivateKey throws.
importPrivateKeyThrows(privateKey) == privateKey.bytes # 32

\* the public key of a seed (crypto.createPublicKey), as text
PublicOf(privateKey) == "pub(" \o privateKey.seed \o ")"

\* crypto.sign(null, data, keyObject): pure Ed25519 over the data
Ed25519Sign(privateKey, data) ==
    "ed25519(" \o PublicOf(privateKey) \o "," \o data \o ")"

\* crypto.verify(null, data, publicKey, signature)
Ed25519Verify(publicKey, data, signature) ==
    signature = "ed25519(" \o publicKey \o "," \o data \o ")"

\* a signature over the SHA-256 digest of the data instead of the data
signEd25519_Prehashed(privateKey, data) ==
    base64urlEncode(Ed25519Sign(privateKey, Sha256(data)))

\* signEd25519, for a key that imports
signEd25519(privateKey, data) == base64urlEncode(Ed25519Sign(privateKey, data))

\* derivePublicKey, for a key that imports
derivePublicKey(privateKey) == base64urlEncode(PublicOf(privateKey))

---------------------------------------------------------------------------
(* Identifiers (utils.ts) *)

\* Math.floor(n / 2 ** k) for n >= 0
RECURSIVE ShiftRight(_, _)
ShiftRight(n, k) == IF k = 0 THEN n ELSE ShiftRight(n \div 2, k - 1)

\* A clock reading, a number of 0..2^48-1, is held as its two halves of 24
\* bits, now = hi * 2^24 + lo, so that all 48 bits can be told apart.
Millis(n) == [hi |-> n \div (2^24), lo |-> n % (2^24)]

\* a byte read from the low 32 bits only, the bits above them taken for zero
TimeByte_Low32(now, k) ==
    IF k >= 32 THEN 0
    ELSE IF k >= 24 THEN ShiftRight(now.hi, k - 24) % 256
    ELSE ShiftRight(now.lo, k) % 256

\* (now / 2 ** k) & 0xff, and now & 0xff for k = 0: the division by a power of
\* two is exact, & takes the integer part modulo 2^32 and keeps its low eight
\* bits, which are bits k..k+7 of now; k is a multiple of 8
TimeByte(now, k) ==
    IF k >= 24 THEN ShiftRight(now.hi, k - 24) % 256
    ELSE ShiftRight(now.lo, k) % 256

\* the bytes with the timestamp written low byte first
uuidv7Bytes_LittleEndian(now, random) ==
    << TimeByte(now, 0), TimeByte(now, 8), TimeByte(now, 16),
       TimeByte(now, 24), TimeByte(now, 32), TimeByte(now, 40),
       112 + (random[1] % 16), random[2],
       128 + (random[3] % 64), random[4],
       random[5], random[6], random[7], random[8], random[9], random[10] >>

\* the 16 bytes uuidv7 assembles from the clock and 10 random bytes
uuidv7Bytes(now, random) ==
    << TimeByte(now, 40), TimeByte(now, 32), TimeByte(now, 24),
       TimeByte(now, 16), TimeByte(now, 8), TimeByte(now, 0),
       112 + (random[1] % 16), random[2],
       128 + (random[3] % 64), random[4],
       random[5], random[6], random[7], random[8], random[9], random[10] >>

\* two lowercase hex digits of a byte
HexByte(b) == HexDigits[(b \div 16) + 1] \o HexDigits[(b % 16) + 1]

\* bytes.toString('hex').slice(from, to), from and to even
RECURSIVE HexSlice(_, _, _)
HexSlice(bytes, from, to) ==
    IF from >= to THEN ""
    ELSE HexByte(bytes[(from \div 2) + 1]) \o HexSlice(bytes, from + 2, to)

\* uuidv7
uuidv7(now, random) ==
    LET bytes == uuidv7Bytes(now, random)
    IN HexSlice(bytes, 0, 8) \o "-" \o HexSlice(bytes, 8, 12) \o "-"
        \o HexSlice(bytes, 12, 16) \o "-" \o HexSlice(bytes, 16, 20) \o "-"
        \o HexSlice(bytes, 20, 32)

\* generateNonce, from its 16 random bytes
generateNonce(random) == base64urlEncode("bytes(" \o HexSlice(random, 0, 32) \o ")")

---------------------------------------------------------------------------
(* ElydoraClient: construction and createOperation (client.ts) *)

\* the private keys tried: one that decodes to a 32-byte seed, one a byte short
PrivateKeys == { [seed |-> "seedA", bytes |-> 32], [seed |-> "seedB", bytes |-> 31] }

\* the configurations the constructor is given: the keys and the values of
\* maxRetries vary, the optional ttlMs and kid are left out
Configs(keys, retries) ==
    [ orgId : {"org-1"},
      agentId : {"agent-1"},
      privateKey : keys,
      ttlMs : {Undefined},
      maxRetries : retries,
      kid : {Undefined} ]

\* maxRetries left out, and every value from 0 to MaxRetriesCfg
RetrySettings == {Undefined} \cup {Num(k) : k \in 0..MaxRetriesCfg}

\* the fields the constructor sets from the configuration
orgId == config.orgId
agentId == config.agentId
privateKey == config.privateKey
ttlMs == Nullish(config.ttlMs, Num(DEFAULT_TTL_MS)).v
maxRetries == Nullish(config.maxRetries, Num(DEFAULT_MAX_RETRIES)).v
kid == Nullish(config.kid, Str(agentId \o "-key-v1")).v

\* getChainHash
getChainHash == prevChainHash

\* getPublicKey, for a key that imports
getPublicKey == derivePublicKey(privateKey)

\* the CreateOperationParams tried; payload Undefined is an omitted payload
Payloads ==
    { Undefined,
      Null,
      Str(""),
      Obj(<< <<"b", Num(1)>>, <<"a", Str("x")>>, <<"B", Undefined>> >>) }

\* a payload JSON.stringify cannot write
UnserialisablePayloads == { Obj(<< <<"a", BigInt>> >>) }

Params ==
    [ operationType : {"data.access"},
      subject : { Obj(<< <<"resource", Str("doc")>> >>) },
      action : { Obj(<< <<"type", Str("read")>> >>) },
      payload : Payloads ]

\* the same with the payloads that make the call throw
AnyParams ==
    [ operationType : {"data.access"},
      subject : { Obj(<< <<"resource", Str("doc")>> >>) },
      action : { Obj(<< <<"type", Str("read")>> >>) },
      payload : Payloads \cup UnserialisablePayloads ]

\* what one createOperation call reads from the clock and the random source:
\* Date.now() inside uuidv7, Date.now() for issued_at, and the random bytes
Times == {1700000000, 1700000001}
UuidRandoms == { <<255, 1, 255, 3, 4, 5, 6, 7, 8, 9>> }
NonceRandoms == { <<0, 1, 2, 3, 4, 5, 6, 7, 8, 9, 10, 11, 12, 13, 14, 15>> }

Envs ==
    { e \in [ uuidNow : Times, issuedNow : Times,
              uuidRandom : UuidRandoms, nonceRandom : NonceRandoms ] :
        e.uuidNow = e.issuedNow }

\* the EOR without its signature, properties in the order of the literal
eorWithoutSig(prev, params, operationId, issuedAt, nonce, payload, payloadHash) ==
    Obj(<< <<"op_version", Str("1.0")>>,
           <<"operation_id", Str(operationId)>>,
           <<"org_id", Str(orgId)>>,
           <<"agent_id", Str(agentId)>>,
           <<"issued_at", Num(issuedAt)>>,
           <<"ttl_ms", Num(ttlMs)>>,
           <<"nonce", Str(nonce)>>,
           <<"operation_type", Str(params.operationType)>>,
           <<"subject", params.subject>>,
           <<"action", params.action>>,
           <<"payload", payload>>,
           <<"payload_hash", Str(payloadHash)>>,
           <<"prev_chain_hash", Str(prev)>>,
           <<"agent_pubkey_kid", Str(kid)>> >>)

\* { ...eorWithoutSig, signature }
WithSignature(unsigned, signature) ==
    Obj(unsigned.v \o << <<"signature", Str(signature)>> >>)

\* createOperation up to the signature, on a client whose chain head is prev:
\* whether it threw, the signed EOR and the chain hash it computed
signedOperation(prev, params, env) ==
    LET operationId == uuidv7(Millis(env.uuidNow), env.uuidRandom)
        issuedAt == env.issuedNow
        nonce == generateNonce(env.nonceRandom)
        payload == Nullish(params.payload, Null)
        payloadHash == computePayloadHash(payload)
        chainHash == computeChainHash(prev, payloadHash, operationId, issuedAt)
        unsigned == eorWithoutSig(prev, params, operationId, issuedAt, nonce,
                                  payload, payloadHash)
        canonical == jcsCanonicalise(unsigned)
    IN IF jcsThrows(payload)
       THEN [threw |-> TRUE, eor |-> Null, chainHash |-> Undefined]
       ELSE IF importPrivateKeyThrows(privateKey)
       THEN [threw |-> TRUE, eor |-> Null, chainHash |-> chainHash]
       ELSE [threw |-> FALSE,
             eor |-> WithSignature(unsigned, signEd25519(privateKey, Utf8(canonical))),
             chainHash |-> chainHash]

\* a createOperation that assigns the payload hash to the chain head
createOperation_CommitsPayloadHash(prev, params, env) ==
    LET built == signedOperation(prev, params, env)
    IN [threw |-> built.threw, eor |-> built.eor,
        prevChainHash |-> IF built.threw THEN prev
                          ELSE Field(built.eor, "payload_hash")]

\* a createOperation that moves the chain head to genesis when it throws
createOperation_RewindsOnThrow(prev, params, env) ==
    LET built == signedOperation(prev, params, env)
    IN [threw |-> built.threw, eor |-> built.eor,
        prevChainHash |-> IF built.threw THEN ZERO_CHAIN_HASH ELSE built.chainHash]

\* a createOperation that returns without updating the chain head
createOperation_NoCommit(prev, params, env) ==
    LET built == signedOperation(prev, params, env)
    IN [threw |-> built.threw, eor |-> built.eor, prevChainHash |-> prev]

\* createOperation on a client whose chain head is prev: whether it threw, the
\* EOR it returned, and the chain head it left (updated after the signature,
\* so only when nothing threw)
createOperation(prev, params, env) ==
    LET built == signedOperation(prev, params, env)
    IN [threw |-> built.threw, eor |-> built.eor,
        prevChainHash |-> IF built.threw THEN prev ELSE built.chainHash]

\* a caller invokes createOperation
CreateOperationOf(candidates) ==
    \E params \in candidates :
        /\ IF importPrivateKeyThrows(privateKey) \/ jcsThrows(Nullish(params.payload, Null))
           THEN createThrows < MaxThrows
           ELSE Len(ops) < MaxOps
        /\ \E env \in Envs :
           \E r \in {createOperation(prevChainHash, params, env)} :
           /\ prevChainHash' = r.prevChainHash
           /\ ops' = IF r.threw THEN ops
                     ELSE Append(ops, [params |-> params, env |-> env, eor |-> r.eor,
                                       throwsBefore |-> createThrows])
           /\ createThrows' = IF r.threw THEN createThrows + 1 ELSE createThrows
           /\ suspendedBuilds' = IF ~r.threw /\ call.pc \in {"fetch", "sleep"}
                                 THEN suspendedBuilds + 1
                                 ELSE suspendedBuilds
           /\ UNCHANGED <<config, call, token, probe, fs>>

\* a caller invokes createOperation with a payload that can be written
CreateOperation == CreateOperationOf(Params)

\* a caller invokes createOperation with any payload
CreateAnyOperation == CreateOperationOf(AnyParams)

---------------------------------------------------------------------------
(* Transport: what fetch can resolve or reject with *)

\* x * n for JavaScript numbers
NumTimes(x, n) == IF x = NaN THEN NaN ELSE Num(x.v * n)

\* a header value is a string given by its characters, so that parseInt can
\* read it; headers.get gives Null when the header is absent
Chars(characters) == [t |-> "string", v |-> characters]
RetryAfterSeconds == Chars(<<"1", "2", "0">>)
RetryAfterZero == Chars(<<"0">>)
RetryAfterDate ==
    Chars(<< "W", "e", "d", ",", " ", "2", "1", " ", "O", "c", "t", " ",
             "2", "0", "1", "5", " ", "0", "7", ":", "2", "8", ":", "0", "0",
             " ", "G", "M", "T" >>)
RetryAfterValues == { Null, RetryAfterSeconds, RetryAfterZero, RetryAfterDate }

IsDigit(c) == \E i \in 1..10 : Digits[i] = c
DigitValue(c) == (CHOOSE i \in 1..10 : Digits[i] = c) - 1

\* the longest prefix of decimal digits of chars, as a number; acc is the
\* value of the digits read, seen whether one was read
RECURSIVE ParseDigits(_, _, _)
ParseDigits(chars, acc, seen) ==
    IF Len(chars) > 0 /\ IsDigit(chars[1])
    THEN ParseDigits(Tail(chars), acc * 10 + DigitValue(chars[1]), TRUE)
    ELSE IF seen THEN Num(acc) ELSE NaN

RECURSIVE TrimStart(_)
TrimStart(chars) ==
    IF Len(chars) > 0 /\ chars[1] = " " THEN TrimStart(Tail(chars)) ELSE chars

\* parseInt(text, 10) for a string given by its characters
parseInt(text) ==
    LET s == TrimStart(text.v)
    IN IF Len(s) > 0 /\ s[1] = "-" THEN NumTimes(ParseDigits(Tail(s), 0, FALSE), -1)
       ELSE IF Len(s) > 0 /\ s[1] = "+" THEN ParseDigits(Tail(s), 0, FALSE)
       ELSE ParseDigits(s, 0, FALSE)

\* the truthiness of what headers.get returns
HeaderTruthy(h) == h # Null /\ Len(h.v) > 0

\* what res.json() finds: text that is no JSON, or a JSON value
NotJson == [json |-> FALSE, value |-> Undefined]
JsonBody(value) == [json |-> TRUE, value |-> value]

ErrorBody(code, message, requestId) ==
    JsonBody(Obj(<< <<"error", Obj(<< <<"code", Str(code)>>,
                                      <<"message", Str(message)>>,
                                      <<"request_id", Str(requestId)>> >>)>> >>))

\* an error body with details
DetailedErrorBody ==
    JsonBody(Obj(<< <<"error",
                      Obj(<< <<"code", Str("FORBIDDEN")>>,
                             <<"message", Str("agent frozen")>>,
                             <<"request_id", Str("r3")>>,
                             <<"details", Obj(<< <<"reason", Str("audit")>> >>)>> >>)>> >>))

\* JSON bodies without an error: {}, {"error":null} and null
EmptyObjectBody == JsonBody(Obj(<<>>))
NullErrorBody == JsonBody(Obj(<< <<"error", Null>> >>))
NullBody == JsonBody(Null)

ReceiptBody == JsonBody(Obj(<< <<"receipt", Str("rcpt-1")>> >>))

StatusText(status) ==
    CASE status = 200 -> "OK"
      [] status = 204 -> "No Content"
      [] status = 400 -> "Bad Request"
      [] status = 429 -> "Too Many Requests"
      [] status = 503 -> "Service Unavailable"

Response(status, retryAfter, body) ==
    [kind |-> "response", status |-> status, statusText |-> StatusText(status),
     retryAfter |-> retryAfter, body |-> body, error |-> Undefined]

\* the TypeError fetch rejects with when the connection is refused
FetchFailed ==
    [name |-> "TypeError", message |-> Str("fetch failed"),
     cause |-> "ECONNREFUSED"]

\* the TypeError fetch rejects with when the connection times out
FetchTimedOut ==
    [name |-> "TypeError", message |-> Str("fetch failed"),
     cause |-> "UND_ERR_CONNECT_TIMEOUT"]

\* fetch rejects with error: connection, DNS, TLS or timeout failure
Rejection(error) ==
    [kind |-> "rejected", status |-> 0, statusText |-> "",
     retryAfter |-> Null, body |-> NotJson, error |-> error]

NetworkFailure == Rejection(FetchFailed)
NetworkTimeout == Rejection(FetchTimedOut)

\* the responses the server is made to give
Responses ==
    { Response(200, Null, ReceiptBody), Response(200, Null, NotJson),
      Response(204, Null, NotJson),
      Response(400, Null, ErrorBody("VALIDATION_ERROR", "bad payload", "r1")),
      Response(400, Null, NotJson), Response(400, Null, DetailedErrorBody),
      Response(400, Null, EmptyObjectBody), Response(400, Null, NullErrorBody),
      Response(400, Null, NullBody) }
    \cup { Response(st, ra, b) :
             st \in {429, 503}, ra \in RetryAfterValues,
             b \in { ErrorBody("RATE_LIMITED", "slow down", "r2"), NotJson } }

FetchOutcomes == Responses \cup {NetworkFailure, NetworkTimeout}

\* one outcome of each kind: success, typed error, retryable answer, failure
SomeFetchOutcomes ==
    { Response(200, Null, ReceiptBody),
      Response(400, Null, ErrorBody("VALIDATION_ERROR", "bad payload", "r1")),
      Response(503, Null, NotJson),
      NetworkFailure }

---------------------------------------------------------------------------
(* Transport: errors and handleResponse (client.ts, errors.ts) *)

\* the ErrorCode type: the codes of the taxonomy
ErrorCodes ==
    { "INVALID_SIGNATURE", "UNKNOWN_AGENT", "KEY_REVOKED", "AGENT_FROZEN",
      "TTL_EXPIRED", "REPLAY_DETECTED", "PREV_HASH_MISMATCH", "PAYLOAD_TOO_LARGE",
      "RATE_LIMITED", "INTERNAL_ERROR", "UNAUTHORIZED", "FORBIDDEN", "NOT_FOUND",
      "VALIDATION_ERROR" }

\* a constructor that takes the message before the code
ElydoraError_MessageFirst(statusCode, code, message, requestId, details) ==
    [name |-> "ElydoraError", statusCode |-> statusCode, code |-> message,
     message |-> code, requestId |-> requestId, details |-> details]

\* new ElydoraError(statusCode, code, message, requestId, details)
ElydoraError(statusCode, code, message, requestId, details) ==
    [name |-> "ElydoraError", statusCode |-> statusCode, code |-> code,
     message |-> message, requestId |-> requestId, details |-> details]

\* the SyntaxError res.json() rejects with
JsonSyntaxError == [name |-> "SyntaxError", message |-> Str("Unexpected token")]

\* err instanceof ElydoraError
IsElydoraError(err) == err.name = "ElydoraError"

\* value?.key : Undefined unless value is an object with that property
OptionalGet(value, key) ==
    IF value.t = "object" /\ \E i \in 1..Len(value.v) : value.v[i][1] = key
    THEN Get(value, key)
    ELSE Undefined

\* the truthiness of a value
Truthy(value) ==
    CASE value.t = "null" -> FALSE
      [] value.t = "undefined" -> FALSE
      [] value.t = "boolean" -> value.v
      [] value.t = "number" -> value.v # 0
      [] value.t = "string" -> value.v # ""
      [] OTHER -> TRUE

\* res.ok
ResponseOk(res) == res.status >= 200 /\ res.status <= 299

Returned(value) == [threw |-> FALSE, value |-> value]
Thrown(err) == [threw |-> TRUE, value |-> err]

\* handleResponse
handleResponse(res) ==
    IF ResponseOk(res)
    THEN IF res.status = 204 THEN Returned(Undefined)
         ELSE IF res.body.json THEN Returned(res.body.value)
         ELSE Thrown(JsonSyntaxError)
    ELSE LET errorBody == IF res.body.json THEN res.body.value ELSE Undefined
             error == OptionalGet(errorBody, "error")
         IN IF Truthy(error)
            THEN Thrown(ElydoraError(res.status,
                                     OptionalGet(error, "code"),
                                     OptionalGet(error, "message"),
                                     OptionalGet(error, "request_id"),
                                     OptionalGet(error, "details")))
            ELSE Thrown(ElydoraError(res.status, Str("INTERNAL_ERROR"),
                                     Str("HTTP " \o NumberToString(res.status) \o ": "
                                            \o res.statusText),
                                     Str("unknown"), Undefined))

---------------------------------------------------------------------------
(* Transport: the retry loop of ElydoraClient.request, and getJWKS *)

\* the locals of one transport call.  pc is where the call stands: "fetch" and
\* "sleep" are its two awaits, "returned" and "thrown" its two ends.  nreq
\* counts the HTTP requests the call has issued; res is what the last fetch
\* settled with; delayMs is the argument of the pending sleep; lastError is
\* the local of that name, gone when the call ends.
NoResponse ==
    [kind |-> "none", status |-> 0, statusText |-> "",
     retryAfter |-> Null, body |-> NotJson, error |-> Undefined]

NoOutcome == [threw |-> FALSE, value |-> Null]

\* headers is the headers object of the call's requests; issuedUnder is
\* history: the value of this.token when the pending request was issued;
\* cancelledAt is history: the number of requests issued when the caller gave
\* the call up, 0 while it has not.
NewCall(op) ==
    [pc |-> "idle", op |-> op, attempt |-> 0, nreq |-> 0, res |-> NoResponse,
     delayMs |-> Undefined, lastError |-> Undefined, out |-> NoOutcome,
     headers |-> {}, issuedUnder |-> Undefined, cancelledAt |-> 0]

\* the transport operations tried: one that goes through request, and getJWKS,
\* which calls fetch itself
RequestOps == {"submitOperation"}
TransportOps == RequestOps \cup {"getJWKS"}

\* the static methods, which call fetch themselves
StaticOps == {"register", "login"}

\* the headers object request builds; hasBody is body !== undefined
RequestHeaders(hasBody) ==
    { <<"Accept", "application/json">> }
      \cup (IF Truthy(token) THEN { <<"Authorization", "Bearer " \o token.v>> } ELSE {})
      \cup (IF hasBody THEN { <<"Content-Type", "application/json">> } ELSE {})

\* the headers of the requests of op
HeadersOf(op) ==
    CASE op = "submitOperation" -> RequestHeaders(TRUE)
      [] op = "getJWKS" -> { <<"Accept", "application/json">> }
      [] op \in StaticOps -> { <<"Content-Type", "application/json">> }

\* new Error('Request failed after retries')
RequestFailed == [name |-> "Error", message |-> Str("Request failed after retries")]

\* a retry condition that takes every error status
IsRetryableStatus_From400(status) == status >= 400

\* res.status === 429 || res.status >= 500
IsRetryableStatus(status) == status = 429 \/ status >= 500

\* attempt < this.maxRetries
MayRetry(attempt) == attempt < maxRetries

\* a loop that runs one iteration more
LoopContinues_OneMore(attempt) == attempt <= maxRetries + 1

\* the loop condition attempt <= this.maxRetries
LoopContinues(attempt) == attempt <= maxRetries

RECURSIVE Pow2(_)
Pow2(n) == IF n = 0 THEN 1 ELSE 2 * Pow2(n - 1)

\* a backoff without the cap
Backoff_Uncapped(attempt) == Num(BACKOFF_BASE_MS * Pow2(attempt))

\* Math.min(1000 * 2 ** attempt, 10_000)
Backoff(attempt) ==
    LET grown == BACKOFF_BASE_MS * Pow2(attempt)
    IN Num(IF grown < BACKOFF_CAP_MS THEN grown ELSE BACKOFF_CAP_MS)

\* the delay chosen after a 429 or 5xx response
RetryDelay(res, attempt) ==
    IF HeaderTruthy(res.retryAfter)
    THEN NumTimes(parseInt(res.retryAfter), 1000)
    ELSE Backoff(attempt)

\* a loop head that starts over from attempt 0 whenever it is entered
Iterate_StartsOver(c, attempt, lastError) ==
    [c EXCEPT !.pc = "fetch", !.attempt = 0, !.nreq = 1,
              !.res = NoResponse, !.delayMs = Undefined,
              !.lastError = lastError, !.issuedUnder = token]

\* the head of the for loop with the given value of attempt: issue the fetch
\* of that attempt, or leave the loop and throw
Iterate(c, attempt, lastError) ==
    IF LoopContinues(attempt)
    THEN [c EXCEPT !.pc = "fetch", !.attempt = attempt, !.nreq = @ + 1,
                   !.res = NoResponse, !.delayMs = Undefined,
                   !.lastError = lastError, !.issuedUnder = token]
    ELSE [c EXCEPT !.pc = "thrown", !.lastError = Undefined,
                   !.out = Thrown(Nullish(lastError, RequestFailed))]

\* a catch block that keeps the first error it has seen as lastError
Catch_KeepsFirstError(c, res, err) ==
    IF IsElydoraError(err)
    THEN [c EXCEPT !.pc = "thrown", !.res = res, !.lastError = Undefined,
                   !.out = Thrown(err)]
    ELSE IF MayRetry(c.attempt)
    THEN [c EXCEPT !.pc = "sleep", !.res = res,
                   !.lastError = Nullish(c.lastError, err),
                   !.delayMs = Backoff(c.attempt)]
    ELSE Iterate([c EXCEPT !.res = res], c.attempt + 1, Nullish(c.lastError, err))

\* the catch block of request, entered with err after the fetch settled with res
Catch(c, res, err) ==
    IF IsElydoraError(err)
    THEN [c EXCEPT !.pc = "thrown", !.res = res, !.lastError = Undefined,
                   !.out = Thrown(err)]
    ELSE IF MayRetry(c.attempt)
    THEN [c EXCEPT !.pc = "sleep", !.res = res, !.lastError = err,
                   !.delayMs = Backoff(c.attempt)]
    ELSE Iterate([c EXCEPT !.res = res], c.attempt + 1, err)

\* request, from the point its fetch settles with res to its next await or its end
RequestAfterFetch(c, res) ==
    IF res.kind = "rejected" THEN Catch(c, res, res.error)
    ELSE IF MayRetry(c.attempt) /\ IsRetryableStatus(res.status)
    THEN [c EXCEPT !.pc = "sleep", !.res = res,
                   !.delayMs = RetryDelay(res, c.attempt)]
    ELSE LET h == handleResponse(res)
         IN IF h.threw THEN Catch(c, res, h.value)
            ELSE [c EXCEPT !.pc = "returned", !.res = res,
                           !.lastError = Undefined, !.out = h]

\* getJWKS, from the point its fetch settles with res to its end
GetJWKSAfterFetch(c, res) ==
    LET h == IF res.kind = "rejected" THEN Thrown(res.error) ELSE handleResponse(res)
    IN [c EXCEPT !.pc = IF h.threw THEN "thrown" ELSE "returned",
                 !.res = res, !.out = h]

\* the builds counted against the call in flight: none once it has ended
BuildsWhile(c, builds) == IF c.pc \in {"fetch", "sleep"} THEN builds ELSE 0

\* a caller starts a transport operation; the call runs to its first await
StartCall(op) ==
    /\ call.pc \in {"idle", "returned", "thrown"}
    /\ call' = IF op \in RequestOps
               THEN Iterate([NewCall(op) EXCEPT !.headers = HeadersOf(op)],
                            0, Undefined)
               ELSE [NewCall(op) EXCEPT !.pc = "fetch", !.nreq = 1,
                                        !.headers = HeadersOf(op),
                                        !.issuedUnder = token]
    /\ suspendedBuilds' = 0
    /\ UNCHANGED <<config, prevChainHash, ops, createThrows, token, probe, fs>>

\* setToken
SetToken(t) ==
    /\ token' = Str(t)
    /\ UNCHANGED <<config, prevChainHash, ops, createThrows, call, suspendedBuilds,
                   probe, fs>>

\* a transport that puts the chain head back to genesis when the call fails
FetchSettles_RewindsOnFailure(res) ==
    /\ call.pc = "fetch"
    /\ call' = IF call.op \in RequestOps
               THEN RequestAfterFetch(call, res)
               ELSE GetJWKSAfterFetch(call, res)
    /\ suspendedBuilds' = BuildsWhile(call', suspendedBuilds)
    /\ prevChainHash' = IF call'.pc = "thrown" THEN ZERO_CHAIN_HASH ELSE prevChainHash
    /\ UNCHANGED <<config, ops, createThrows, token, probe, fs>>

\* the pending fetch settles with res; the call runs to its next await or ends
FetchSettles(res) ==
    /\ call.pc = "fetch"
    /\ call' = IF call.op \in RequestOps
               THEN RequestAfterFetch(call, res)
               ELSE GetJWKSAfterFetch(call, res)
    /\ suspendedBuilds' = BuildsWhile(call', suspendedBuilds)
    /\ UNCHANGED <<config, prevChainHash, ops, createThrows, token, probe, fs>>

\* The caller gives up a call that waits on its fetch or on a retry delay: its
\* deadline passes, its context is cancelled.  request, getJWKS and sleep take
\* no AbortSignal, fetch is given none and the timer is never cleared, so
\* nothing of the call changes.
Cancel ==
    /\ call.pc \in {"fetch", "sleep"}
    /\ call.cancelledAt = 0
    /\ call' = [call EXCEPT !.cancelledAt = call.nreq]
    /\ UNCHANGED <<config, prevChainHash, ops, createThrows, suspendedBuilds,
                   token, probe, fs>>

\* the pending sleep ends; continue takes the loop to its next iteration
SleepElapses ==
    /\ call.pc = "sleep"
    /\ call' = Iterate(call, call.attempt + 1, call.lastError)
    /\ suspendedBuilds' = BuildsWhile(call', suspendedBuilds)
    /\ UNCHANGED <<config, prevChainHash, ops, createThrows, token, probe, fs>>

---------------------------------------------------------------------------
(* The pure functions of the codec and the signer, called on their own *)

\* probe holds the one call a behaviour observes: the functions keep no state,
\* so the outcome of a call does not depend on the calls before it
NoProbe == [fn |-> "none", input |-> Undefined, out |-> NoOutcome]

\* the sequences of at most max distinct elements of keys
KeySeqs(keys, max) ==
    UNION { { ks \in [1..n -> keys] : \A i, j \in 1..n : i # j => ks[i] # ks[j] } :
            n \in 0..max }

\* the objects with at most max properties named in keys and valued in values,
\* in every insertion order
Objects(keys, values, max) ==
    UNION { { Obj([i \in 1..Len(ks) |-> <<ks[i], vs[i]>>]) :
                vs \in [1..Len(ks) -> values] } :
            ks \in KeySeqs(keys, max) }

\* property names whose order differs between UTF-16 code units and other
\* orders: upper before lower case, a prefix, digits, a surrogate pair
OrderKeys == {"a", "B", "ab", "10", "9", "U+FB01", "U+1F600"}

\* the values jcsCanonicalise and computePayloadHash are called on
ScalarValues ==
    { Null, Undefined, Bool(TRUE), Num(1), Str("x"), NaN, PosInfinity, NegInfinity }
FlatObjects == Objects({"a", "b"}, ScalarValues, 2)
ProbeValues ==
    ScalarValues
      \cup Objects(OrderKeys, {Num(1), Null}, MaxKeys)
      \cup FlatObjects
      \cup { Obj(<< <<"a", inner>> >>) : inner \in FlatObjects }
      \cup { Arr(<<inner, Num(1)>>) : inner \in FlatObjects \cup ScalarValues }

\* a caller invokes jcsCanonicalise(value)
Canonicalise(value) ==
    /\ probe = NoProbe
    /\ probe' = [fn |-> "jcsCanonicalise", input |-> value,
                 out |-> Returned(Str(jcsCanonicalise(value)))]
    /\ UNCHANGED <<config, prevChainHash, ops, createThrows, call, suspendedBuilds,
                   token, fs>>

\* a caller invokes computePayloadHash(payload)
HashPayload(payload) ==
    /\ probe = NoProbe
    /\ probe' = [fn |-> "computePayloadHash", input |-> payload,
                 out |-> Returned(Str(computePayloadHash(payload)))]
    /\ UNCHANGED <<config, prevChainHash, ops, createThrows, call, suspendedBuilds,
                   token, fs>>

\* the private keys the signer is called with: seeds of 0, 31, 32 and 33 bytes
SignerKeys == { [seed |-> "seedA", bytes |-> n] : n \in {0, 31, 32, 33} }
SignerData == { Utf8("{}"), Utf8("null") }

\* the Error crypto.createPrivateKey throws on a DER it cannot read
KeyImportError ==
    [name |-> "Error", code |-> Str("ERR_OSSL_UNSUPPORTED"),
     message |-> Str("error:1E08010C:DECODER routines::unsupported")]

\* importPrivateKey: what crypto.createPrivateKey does with the prefix followed
\* by the seed.  With fewer than 32 bytes the DER is truncated and it throws;
\* with more, the bytes after the 32 of the announced OCTET STRING trail the
\* structure, and whether they are refused or ignored is left to the library.
ImportOutcomes(key) ==
    IF key.bytes = 32 THEN {"imported"}
    ELSE IF key.bytes < 32 THEN {"throws"}
    ELSE {"throws", "imported"}

\* a caller invokes signEd25519(privateKey, data)
Sign(key, data) ==
    /\ probe = NoProbe
    /\ \E outcome \in ImportOutcomes(key) :
          probe' = [fn |-> "signEd25519", input |-> [privateKey |-> key, data |-> data],
                    out |-> IF outcome = "throws" THEN Thrown(KeyImportError)
                            ELSE Returned(Str(signEd25519(key, data)))]
    /\ UNCHANGED <<config, prevChainHash, ops, createThrows, call, suspendedBuilds,
                   token, fs>>

\* a caller invokes derivePublicKey(privateKey)
DerivePublicKey(key) ==
    /\ probe = NoProbe
    /\ \E outcome \in ImportOutcomes(key) :
          probe' = [fn |-> "derivePublicKey", input |-> [privateKey |-> key],
                    out |-> IF outcome = "throws" THEN Thrown(KeyImportError)
                            ELSE Returned(Str(derivePublicKey(key)))]
    /\ UNCHANGED <<config, prevChainHash, ops, createThrows, call, suspendedBuilds,
                   token, fs>>

\* the clock readings and random bytes uuidv7 is called under: 0, 2^48 - 1,
\* readings with six different bytes, one of the present day (about 1.7e12)
UuidClocks ==
    { [hi |-> h, lo |-> l] : h \in {0, 66051, 101327, 16777215},
                             l \in {0, 255, 256, 263430, 16777215} }
UuidRandomProbes ==
    { [i \in 1..10 |-> 0], [i \in 1..10 |-> 255], [i \in 1..10 |-> 16 * i + i],
      <<15, 0, 63, 0, 0, 0, 0, 0, 0, 0>>, <<240, 1, 192, 3, 4, 5, 6, 7, 8, 9>> }

\* a caller invokes uuidv7() while Date.now() gives now and
\* crypto.randomBytes(10) gives random
Uuidv7(now, random) ==
    /\ probe = NoProbe
    /\ probe' = [fn |-> "uuidv7", input |-> [now |-> now, random |-> random],
                 out |-> Returned(Str(uuidv7(now, random)))]
    /\ UNCHANGED <<config, prevChainHash, ops, createThrows, call, suspendedBuilds,
                   token, fs>>

---------------------------------------------------------------------------
(* The installer: the install and uninstall commands of cli.ts and the     *)
(* plugins that edit the hook lists of the host tool's config file.  Each  *)
(* behaviour follows one agent.  The text of a JSON file is kept as the    *)
(* value it parses to; a text that is no JSON is NotJson.                  *)

\* Bound: the longest hook list in the host tool's config before the first
\* command
MaxEntries == 2

\* File modes are three octal digits: owner, group, others.
\* One digit of mode & ~umask
DigitMasked(d, m) ==
      (IF d \div 4 = 1 /\ m \div 4 = 0 THEN 4 ELSE 0)
    + (IF (d \div 2) % 2 = 1 /\ (m \div 2) % 2 = 0 THEN 2 ELSE 0)
    + (IF d % 2 = 1 /\ m % 2 = 0 THEN 1 ELSE 0)

\* the mode open(2) gives a file it creates
Masked(mode, umask) == [i \in 1..3 |-> DigitMasked(mode[i], umask[i])]

\* the mode of fsp.writeFile without a mode option
DefaultFileMode == <<6, 6, 6>>

NoFile == [exists |-> FALSE, mode |-> <<0, 0, 0>>, content |-> Undefined]

\* fsp.writeFile(path, data, {mode}): open with O_CREAT | O_TRUNC.  The mode
\* is used only when the call creates the file; a file that is there keeps
\* the mode it has.
writeFile(file, data, mode, umask) ==
    IF file.exists
    THEN [file EXCEPT !.content = data]
    ELSE [exists |-> TRUE, mode |-> Masked(mode, umask), content |-> data]

\* fsp.unlink(path) inside try/catch
unlink(file) == NoFile

\* the text of a file that JSON.parse reads as value
JsonFile(value) == [json |-> TRUE, value |-> value]

\* the host tool's config file: there or not, and its text
NoHostFile == [exists |-> FALSE, text |-> NotJson]
HostFile(text) == [exists |-> TRUE, text |-> text]

\* the plugins of src/plugins
Plugins == {"claudecode", "cursor", "copilot", "augment"}

\* the keys of SUPPORTED_AGENTS
SUPPORTED_AGENTS == {"claudecode", "cursor", "gemini", "augment", "kiro", "opencode"}

\* resolveConfigDir reads entry.configDir, and entry is
\* SUPPORTED_AGENTS.get(AGENT_KEY): undefined for a key the registry lacks,
\* and the read throws a TypeError
resolveConfigDirThrows(agent) == agent \notin SUPPORTED_AGENTS

\* the names of the two hook lists in the host tool's config
PreKey(agent) == IF agent \in {"claudecode", "augment"} THEN "PreToolUse" ELSE "preToolUse"
PostKey(agent) == IF agent \in {"claudecode", "augment"} THEN "PostToolUse" ELSE "postToolUse"

ELYDORA_DIR == "/home/u/.elydora"

\* the paths cmdInstall writes the two scripts to
HookScriptPath(agentName) == ELYDORA_DIR \o "/hooks/" \o agentName \o "-hook.js"
GuardScriptPath(agentName) == ELYDORA_DIR \o "/hooks/" \o agentName \o "-guard.js"

\* the script paths of an install made from another checkout of the SDK
OtherHookScriptPath(agentName) == "/opt/elydora/" \o agentName \o "-hook.js"
OtherGuardScriptPath(agentName) == "/opt/elydora/" \o agentName \o "-guard.js"

buildHookCommand(scriptPath) == "node \"" \o scriptPath \o "\""

\* the command an earlier version of the installer left in a hook list
StaleCommand == buildHookCommand(ELYDORA_DIR \o "/hook.js")

\* the commands of the model that contain the text elydora
CommandsWithElydora ==
    {StaleCommand} \cup
    UNION { { buildHookCommand(HookScriptPath(a)), buildHookCommand(GuardScriptPath(a)),
              buildHookCommand(OtherHookScriptPath(a)),
              buildHookCommand(OtherGuardScriptPath(a)) } : a \in Plugins }

\* cmd.includes('elydora')
IncludesElydora(cmd) == cmd \in CommandsWithElydora

\* isElydoraCommand(cmd, agentId); no caller passes an agentId
isElydoraCommand(cmd) == IncludesElydora(cmd)

\* typeof value[key] === 'string' && isElydoraCommand(value[key])
IsElydoraString(value, key) ==
    LET cmd == OptionalGet(value, key)
    IN cmd.t = "string" /\ isElydoraCommand(cmd.v)

\* the callback of arr.filter in filterElydoraEntries of claudecode.ts and of
\* the augment plugin: TRUE for the entries that stay
KeepsNested(entry) ==
    LET hooks == OptionalGet(entry, "hooks")
        command == OptionalGet(entry, "command")
    IN IF hooks.t = "array"
       THEN ~ \E i \in 1..Len(hooks.v) : IsElydoraString(hooks.v[i], "command")
       ELSE IF command.t = "string"
       THEN ~ isElydoraCommand(command.v)
       ELSE TRUE

\* the same in cursor.ts
KeepsFlat(h) ==
    LET command == OptionalGet(h, "command")
    IN command.t = "string" /\ ~ IncludesElydora(command.v)

\* the same in copilot.ts
KeepsShell(h) ==
    IF IsElydoraString(h, "bash") THEN FALSE
    ELSE IF IsElydoraString(h, "powershell") THEN FALSE
    ELSE TRUE

Keeps(agent, entry) ==
    CASE agent \in {"claudecode", "augment"} -> KeepsNested(entry)
      [] agent = "cursor" -> KeepsFlat(entry)
      [] agent = "copilot" -> KeepsShell(entry)

\* filterElydoraEntries of the agent's plugin
filterElydoraEntries(agent, arr) ==
    Arr(SelectSeq(arr.v, LAMBDA entry : Keeps(agent, entry)))

\* the entry install pushes for a script
PushedEntry(agent, scriptPath) ==
    CASE agent \in {"claudecode", "augment"} ->
            Obj(<< <<"hooks", Arr(<< Obj(<< <<"type", Str("command")>>,
                                           <<"command", Str(buildHookCommand(scriptPath))>> >>) >>)>> >>)
      [] agent = "cursor" ->
            Obj(<< <<"command", Str(buildHookCommand(scriptPath))>> >>)
      [] agent = "copilot" ->
            Obj(<< <<"type", Str("command")>>,
                   <<"bash", Str(buildHookCommand(scriptPath))>>,
                   <<"powershell", Str(buildHookCommand(scriptPath))>>,
                   <<"timeoutSec", Num(5)>> >>)

\* target[key] = value followed by JSON.stringify: an object gets or replaces
\* the property; a property set on an array is no element, and
\* JSON.stringify leaves it out
SetProperty(target, key, value) ==
    IF target.t = "array" THEN target
    ELSE IF \E i \in 1..Len(target.v) : target.v[i][1] = key
    THEN Obj([i \in 1..Len(target.v) |->
                IF target.v[i][1] = key THEN <<key, value>> ELSE target.v[i]])
    ELSE Obj(Append(target.v, <<key, value>>))

\* the settings install starts from: the parsed file, or the literal of the
\* plugin when the file cannot be read or parsed
StartSettings(agent, host) ==
    IF host.exists /\ host.text.json THEN host.text.value
    ELSE IF agent = "copilot" THEN Obj(<< <<"version", Num(1)>> >>)
    ELSE Obj(<<>>)

\* hooks[key] when it is an array, and [] otherwise
ListOrEmpty(hooks, key) ==
    LET list == OptionalGet(hooks, key)
    IN IF list.t = "array" THEN list ELSE Arr(<<>>)

\* one of the two blocks of install: filter the list, push the new entry
Reinstalled(agent, hooks, key, scriptPath) ==
    SetProperty(hooks, key,
        Arr(Append(filterElydoraEntries(agent, ListOrEmpty(hooks, key)).v,
                   PushedEntry(agent, scriptPath))))

\* plugin.install(config): whether it throws, and the host file it leaves.
\* A settings value that is null or a primitive makes the property access
\* or the assignment throw a TypeError.
pluginInstall(agent, host, installConfig) ==
    LET parsed == StartSettings(agent, host)
        settings == IF agent = "copilot" /\ parsed.t \in {"object", "array"}
                    THEN SetProperty(parsed, "version", Num(1))
                    ELSE parsed
        found == OptionalGet(settings, "hooks")
        hooks == IF ~ Truthy(found) \/ found.t \notin {"object", "array"}
                 THEN Obj(<<>>)
                 ELSE found
        withPre == Reinstalled(agent, hooks, PreKey(agent), installConfig.guardScriptPath)
        withPost == Reinstalled(agent, withPre, PostKey(agent), installConfig.hookScriptPath)
    IN IF resolveConfigDirThrows(agent) \/ settings.t \notin {"object", "array"}
       THEN [threw |-> TRUE, host |-> host]
       ELSE [threw |-> FALSE,
             host |-> HostFile(JsonFile(SetProperty(settings, "hooks", withPost)))]

\* one of the two blocks of uninstall: filter the list if it is an array
Filtered(agent, hooks, key) ==
    IF OptionalGet(hooks, key).t = "array"
    THEN SetProperty(hooks, key, filterElydoraEntries(agent, OptionalGet(hooks, key)))
    ELSE hooks

\* plugin.uninstall(): whether it throws, and the host file it leaves
pluginUninstall(agent, host) ==
    LET settings == host.text.value
        hooks == OptionalGet(settings, "hooks")
        cleaned == Filtered(agent, Filtered(agent, hooks, PreKey(agent)), PostKey(agent))
    IN IF resolveConfigDirThrows(agent) THEN [threw |-> TRUE, host |-> host]
       ELSE IF ~ host.exists \/ ~ host.text.json THEN [threw |-> FALSE, host |-> host]
       ELSE IF settings.t = "null" THEN [threw |-> TRUE, host |-> host]
       ELSE IF ~ Truthy(hooks) THEN [threw |-> FALSE, host |-> host]
       ELSE [threw |-> FALSE,
             host |-> HostFile(JsonFile(SetProperty(settings, "hooks", cleaned)))]

\* check / checkArr of status: the list has an entry status takes for
\* Elydora's
StatusFinds(agent, list) ==
    /\ list.t = "array"
    /\ \E i \in 1..Len(list.v) :
          CASE agent \in {"claudecode", "augment"} ->
                  LET hooks == OptionalGet(list.v[i], "hooks")
                  IN IF hooks.t = "array"
                     THEN \E j \in 1..Len(hooks.v) : IsElydoraString(hooks.v[j], "command")
                     ELSE IsElydoraString(list.v[i], "command")
            [] agent = "cursor" -> IsElydoraString(list.v[i], "command")
            [] agent = "copilot" ->
                  IsElydoraString(list.v[i], "bash") \/ IsElydoraString(list.v[i], "powershell")

\* hookConfigured of status: false when the file cannot be read or parsed,
\* when reading settings.hooks throws inside the try, and when hooks is
\* falsy
hookConfigured(agent, host) ==
    /\ host.exists
    /\ host.text.json
    /\ host.text.value.t # "null"
    /\ LET hooks == OptionalGet(host.text.value, "hooks")
       IN /\ Truthy(hooks)
          /\ StatusFinds(agent, OptionalGet(hooks, PreKey(agent)))
          /\ StatusFinds(agent, OptionalGet(hooks, PostKey(agent)))

\* the positions of the nested PostToolUse commands with elydora in them
NestedHits(list) ==
    { hit \in (1..Len(list)) \X (1..2) :
        LET hooks == OptionalGet(list[hit[1]], "hooks")
        IN /\ hooks.t = "array"
           /\ hit[2] <= Len(hooks.v)
           /\ IsElydoraString(hooks.v[hit[2]], "command") }

\* cmd.replace(/^node\s+"?/, '').replace(/"?\s*$/, '')
ScriptPathOf(cmd) ==
    CHOOSE scriptPath \in { HookScriptPath(a) : a \in Plugins }
                            \cup { GuardScriptPath(a) : a \in Plugins }
                            \cup { OtherHookScriptPath(a) : a \in Plugins }
                            \cup { OtherGuardScriptPath(a) : a \in Plugins }
                            \cup { ELYDORA_DIR \o "/hook.js" } :
        buildHookCommand(scriptPath) = cmd

\* the script status looks for: cursor and augment take the path cmdInstall
\* writes to; claudecode takes it from the last nested PostToolUse command
\* with elydora in it, and has "" when hookConfigured is false or there is
\* none
StatusScriptPath(agent, host) ==
    IF agent # "claudecode" THEN HookScriptPath(agent)
    ELSE IF ~ hookConfigured(agent, host) THEN ""
    ELSE LET list == OptionalGet(OptionalGet(host.text.value, "hooks"), PostKey(agent)).v
             hits == NestedHits(list)
             last == CHOOSE hit \in hits :
                        \A other \in hits :
                           \/ other[1] < hit[1]
                           \/ other[1] = hit[1] /\ other[2] <= hit[2]
         IN IF hits = {} THEN ""
            ELSE ScriptPathOf(OptionalGet(
                    OptionalGet(list[last[1]], "hooks").v[last[2]], "command").v)

\* fsp.access(scriptPath): of the scripts of the model, the ones in
\* ~/.elydora/hooks can be there
Accessible(files, scriptPath) ==
    \/ scriptPath = HookScriptPath(files.agent) /\ files.hook.exists
    \/ scriptPath = GuardScriptPath(files.agent) /\ files.guard.exists

\* plugin.status() of an agent the registry has
status(agent, files) ==
    LET configured == hookConfigured(agent, files.host)
        scriptPath == StatusScriptPath(agent, files.host)
        hookScriptExists == scriptPath # "" /\ Accessible(files, scriptPath)
    IN [installed |-> configured /\ hookScriptExists,
        hookConfigured |-> configured,
        hookScriptExists |-> hookScriptExists]

---------------------------------------------------------------------------
(* The commands of the installer *)

\* history: the last command, whether it failed, and the scripts it was for;
\* fs.hadInstall tells that an install command of the CLI has run to its end
Ran(cmd, threw, hookScriptPath, guardScriptPath) ==
    [cmd |-> cmd, threw |-> threw,
     hookScriptPath |-> hookScriptPath, guardScriptPath |-> guardScriptPath]

\* the --token option: left out, or a JWT
TokenOptions == {Undefined, Str("jwt")}

\* agentConfig of cmdInstall
AgentConfig(tok) ==
    Obj(<< <<"org_id", Str("org-1")>>, <<"agent_id", Str("agent-1")>>,
           <<"kid", Str("agent-1-key-v1")>>,
           <<"base_url", Str("https://api.elydora.com")>> >>
        \o (IF Truthy(tok) THEN << <<"token", tok>> >> ELSE <<>>))

\* generateHookScript and generateGuardScript: the text of a script
generateHookScript(agentName) == Str("hook script of " \o agentName)
generateGuardScript(agentName) == Str("guard script of " \o agentName)

\* cmdInstall for an agent of the registry, with all required options: die
\* if the key does not import; write the agent config, the key and the two
\* scripts; then plugin.install, whose exception ends the command
cmdInstall(files, key, tok) ==
    LET agentName == files.agent
        installConfig == [hookScriptPath |-> HookScriptPath(agentName),
                          guardScriptPath |-> GuardScriptPath(agentName)]
        plugin == pluginInstall(agentName, files.host, installConfig)
    IN IF importPrivateKeyThrows(key)
       THEN [files EXCEPT !.last = Ran("cli install", TRUE,
                                       installConfig.hookScriptPath,
                                       installConfig.guardScriptPath)]
       ELSE [files EXCEPT
                !.cfg = writeFile(@, AgentConfig(tok), DefaultFileMode, files.umask),
                !.key = writeFile(@, Str(key.seed), <<6, 0, 0>>, files.umask),
                !.hook = writeFile(@, generateHookScript(agentName), <<7, 5, 5>>, files.umask),
                !.guard = writeFile(@, generateGuardScript(agentName), <<7, 5, 5>>, files.umask),
                !.host = plugin.host,
                !.last = Ran("cli install", plugin.threw,
                             installConfig.hookScriptPath,
                             installConfig.guardScriptPath),
                !.hadInstall = @ \/ ~ plugin.threw]

\* a cmdUninstall that leaves the key file
cmdUninstall_KeepsKey(files) ==
    LET plugin == pluginUninstall(files.agent, files.host)
    IN IF plugin.threw
       THEN [files EXCEPT !.last = Ran("cli uninstall", TRUE, "", "")]
       ELSE [files EXCEPT !.host = plugin.host,
                          !.hook = unlink(@), !.guard = unlink(@), !.cfg = unlink(@),
                          !.last = Ran("cli uninstall", FALSE, "", "")]

\* cmdUninstall for an agent of the registry: plugin.uninstall, whose
\* exception ends the command, then the four unlinks
cmdUninstall(files) ==
    LET plugin == pluginUninstall(files.agent, files.host)
    IN IF plugin.threw
       THEN [files EXCEPT !.last = Ran("cli uninstall", TRUE, "", "")]
       ELSE [files EXCEPT !.host = plugin.host,
                          !.hook = unlink(@), !.guard = unlink(@),
                          !.cfg = unlink(@), !.key = unlink(@),
                          !.last = Ran("cli uninstall", FALSE, "", "")]

\* elydora install --agent <name> ... [--token <jwt>]
CliInstall(key, tok) ==
    /\ fs.agent \in SUPPORTED_AGENTS
    /\ fs' = cmdInstall(fs, key, tok)
    /\ UNCHANGED <<config, prevChainHash, ops, createThrows, call, suspendedBuilds,
                   token, probe>>

\* elydora uninstall --agent <name>
CliUninstall ==
    /\ fs.agent \in SUPPORTED_AGENTS
    /\ fs' = cmdUninstall(fs)
    /\ UNCHANGED <<config, prevChainHash, ops, createThrows, call, suspendedBuilds,
                   token, probe>>

\* the script paths a caller of plugin.install hands over
InstallConfigs(agent) ==
    { [hookScriptPath |-> HookScriptPath(agent), guardScriptPath |-> GuardScriptPath(agent)],
      [hookScriptPath |-> OtherHookScriptPath(agent),
       guardScriptPath |-> OtherGuardScriptPath(agent)] }

\* a caller invokes install(config) of the agent's plugin
PluginInstall(installConfig) ==
    /\ LET plugin == pluginInstall(fs.agent, fs.host, installConfig)
       IN fs' = [fs EXCEPT !.host = plugin.host,
                           !.last = Ran("install", plugin.threw,
                                        installConfig.hookScriptPath,
                                        installConfig.guardScriptPath)]
    /\ UNCHANGED <<config, prevChainHash, ops, createThrows, call, suspendedBuilds,
                   token, probe>>

\* a caller invokes uninstall() of the agent's plugin
PluginUninstall ==
    /\ LET plugin == pluginUninstall(fs.agent, fs.host)
       IN fs' = [fs EXCEPT !.host = plugin.host,
                           !.last = Ran("uninstall", plugin.threw, "", "")]
    /\ UNCHANGED <<config, prevChainHash, ops, createThrows, call, suspendedBuilds,
                   token, probe>>

---------------------------------------------------------------------------
(* The file systems the installer starts from *)

\* entries of a hook list: of the user, in the nested shape of Claude Code,
\* in the flat shape of Cursor and in the shape of Copilot, and of an earlier
\* install, nested and flat
UserNested ==
    Obj(<< <<"matcher", Str("Bash")>>,
           <<"hooks", Arr(<< Obj(<< <<"type", Str("command")>>,
                                    <<"command", Str("npm run lint")>> >>) >>)>> >>)
UserFlat == Obj(<< <<"command", Str("./format.sh")>> >>)
UserShell == Obj(<< <<"type", Str("command")>>, <<"bash", Str("./lint.sh")>> >>)
StaleNested ==
    Obj(<< <<"hooks", Arr(<< Obj(<< <<"type", Str("command")>>,
                                    <<"command", Str(StaleCommand)>> >>) >>)>> >>)
StaleFlat == Obj(<< <<"command", Str(StaleCommand)>> >>)

Entries == {UserNested, UserFlat, UserShell, StaleNested, StaleFlat}

\* the lists of at most max entries
Lists(max) == UNION { { Arr(list) : list \in [1..n -> Entries] } : n \in 0..max }

\* the settings the host tool's config file can hold: null, an array, no
\* hooks, hooks that are an array or a string, one list, and both lists
Settings(agent) ==
    { Null, Arr(<<>>), Obj(<< <<"theme", Str("dark")>> >>),
      Obj(<< <<"hooks", Arr(<<>>)>> >>), Obj(<< <<"hooks", Str("off")>> >>) }
      \cup { Obj(<< <<"hooks", Obj(<< <<PreKey(agent), pre>> >>)>> >>) : pre \in Lists(1) }
      \cup { Obj(<< <<"theme", Str("dark")>>,
                    <<"hooks", Obj(<< <<PreKey(agent), pre>>,
                                      <<PostKey(agent), post>> >>)>> >>) :
               pre \in Lists(MaxEntries), post \in Lists(1) }

HostFiles(agent) ==
    {NoHostFile, HostFile(NotJson)}
      \cup { HostFile(JsonFile(settings)) : settings \in Settings(agent) }

\* the process umask: 022 and 077
Umasks == { <<0, 2, 2>>, <<0, 7, 7>> }

\* a key file left at the path by hand, readable by everyone
OldKeyFile == [exists |-> TRUE, mode |-> <<6, 4, 4>>, content |-> Str("seedOld")]

NotRun == Ran("none", FALSE, "", "")

\* the disk before the first command, for one agent
Disks(agents) ==
    UNION { { [agent |-> agent, umask |-> umask, cfg |-> NoFile, key |-> key,
               hook |-> NoFile, guard |-> NoFile, host |-> host, last |-> NotRun,
               hadInstall |-> FALSE] :
                umask \in Umasks, key \in {NoFile, OldKeyFile}, host \in HostFiles(agent) } :
            agent \in agents }

\* no installer command is run
NoDisk ==
    [agent |-> "claudecode", umask |-> <<0, 2, 2>>, cfg |-> NoFile, key |-> NoFile,
     hook |-> NoFile, guard |-> NoFile, host |-> NoHostFile, last |-> NotRun,
     hadInstall |-> FALSE]

---------------------------------------------------------------------------
(* Specification *)

\* the state the constructor leaves
Constructed ==
    /\ prevChainHash = ZERO_CHAIN_HASH
    /\ ops = <<>>
    /\ createThrows = 0
    /\ call = NewCall("none")
    /\ suspendedBuilds = 0
    /\ token = Undefined
    /\ probe = NoProbe

\* The client as a whole: createOperation calls interleaved with the awaits of
\* a transport call, for both private keys, one retry and one fetch outcome
\* of each kind
Init ==
    /\ config \in Configs(PrivateKeys, {Num(1)})
    /\ Constructed
    /\ fs = NoDisk

Next ==
    \/ CreateOperation
    \/ \E op \in TransportOps : StartCall(op)
    \/ \E res \in SomeFetchOutcomes : FetchSettles(res)
    \/ SleepElapses

Spec == Init /\ [][Next]_vars

\* The transport alone, for every retry setting and every fetch outcome
InitTransport ==
    /\ config \in Configs({[seed |-> "seedA", bytes |-> 32]}, RetrySettings)
    /\ Constructed
    /\ fs = NoDisk

NextTransport ==
    \/ \E op \in TransportOps : StartCall(op)
    \/ \E res \in FetchOutcomes : FetchSettles(res)
    \/ SleepElapses
    \/ Cancel

SpecTransport == InitTransport /\ [][NextTransport]_vars

\* The transport under the assumption that every fetch settles and every
\* retry sleep ends: fetch resolves or rejects, setTimeout fires
SpecTransportLive ==
    /\ InitTransport
    /\ [][NextTransport]_vars
    /\ WF_vars(\E res \in FetchOutcomes : FetchSettles(res))
    /\ WF_vars(SleepElapses)

\* The headers of the requests: calls of the instance and static methods
\* interleaved with setToken
Tokens == {"t1", "t2"}

InitHeaders ==
    /\ config \in Configs({[seed |-> "seedA", bytes |-> 32]}, {Num(1)})
    /\ Constructed
    /\ fs = NoDisk

NextHeaders ==
    \/ \E t \in Tokens : SetToken(t)
    \/ \E op \in TransportOps \cup StaticOps : StartCall(op)
    \/ \E res \in SomeFetchOutcomes : FetchSettles(res)
    \/ SleepElapses

SpecHeaders == InitHeaders /\ [][NextHeaders]_vars

\* The codec and the signer: each pure function called on each of its inputs
InitCodec ==
    /\ config \in Configs({[seed |-> "seedA", bytes |-> 32]}, {Undefined})
    /\ Constructed
    /\ fs = NoDisk

NextCodec ==
    \/ \E value \in ProbeValues : Canonicalise(value)
    \/ \E payload \in ProbeValues : HashPayload(payload)
    \/ \E key \in SignerKeys, data \in SignerData : Sign(key, data)
    \/ \E key \in SignerKeys : DerivePublicKey(key)
    \/ \E now \in UuidClocks, random \in UuidRandomProbes : Uuidv7(now, random)

SpecCodec == InitCodec /\ [][NextCodec]_vars

\* The operation builder alone, for both private keys and with payloads that
\* cannot be written among the others
InitBuilds ==
    /\ config \in Configs(PrivateKeys, {Undefined})
    /\ Constructed
    /\ fs = NoDisk

NextBuilds == CreateAnyOperation

SpecBuilds == InitBuilds /\ [][NextBuilds]_vars

\* The installer: the commands of the CLI and direct calls of the plugins, in
\* any order, from every disk
InitInstaller ==
    /\ config \in Configs({[seed |-> "seedA", bytes |-> 32]}, {Undefined})
    /\ Constructed
    /\ fs \in Disks(Plugins)

NextInstaller ==
    \/ \E key \in PrivateKeys, tok \in TokenOptions : CliInstall(key, tok)
    \/ CliUninstall
    \/ \E installConfig \in InstallConfigs(fs.agent) : PluginInstall(installConfig)
    \/ PluginUninstall

SpecInstaller == InitInstaller /\ [][NextInstaller]_vars

---------------------------------------------------------------------------
(* Observations used by the properties *)

\* the EORs returned so far, in call order
eors == [i \in 1..Len(ops) |-> ops[i].eor]

\* the EOR minus its signature property
WithoutSignature(eor) == Obj(SelectSeq(eor.v, LAMBDA p : p[1] # "signature"))

\* the chain hash of an EOR, from the four fields the chain hash covers
ChainHashOf(eor) ==
    computeChainHash(Field(eor, "prev_chain_hash"), Field(eor, "payload_hash"),
                     Field(eor, "operation_id"), Field(eor, "issued_at"))

---------------------------------------------------------------------------
(* The hash chain *)

\* C1: the first EOR a client returns carries the genesis hash as its
\* prev_chain_hash, and every later EOR carries the chain hash of the EOR
\* returned just before it.
C1_ChainLinkage ==
    /\ Len(ops) > 0 => Field(eors[1], "prev_chain_hash") = ZERO_CHAIN_HASH
    /\ \A i \in 2..Len(ops) :
          Field(eors[i], "prev_chain_hash") = ChainHashOf(eors[i - 1])

\* two EORs have been returned, with different payloads
C1_TwoLinked ==
    /\ Len(ops) >= 2
    /\ ops[1].params.payload # ops[2].params.payload

\* the chain head is the chain hash of the latest EOR, or genesis before any
HeadIsLatest ==
    prevChainHash = IF Len(ops) = 0 THEN ZERO_CHAIN_HASH
                    ELSE ChainHashOf(eors[Len(ops)])

\* a step of a transport call leaves the chain head as it was
TransportKeepsHead == call' # call => prevChainHash' = prevChainHash

\* C2: the chain head is only ever moved by createOperation, to the chain hash
\* of the EOR it returns; no step of a submission or of any other API call,
\* whether it succeeds or fails, changes it or puts it back.
C2_HeadMovedOnlyByCreate == []HeadIsLatest /\ [][TransportKeepsHead]_vars

\* a submission failed after a retry, on a client that has returned an EOR
C2_FailedSubmissionAfterBuild ==
    /\ Len(ops) >= 1
    /\ call.op = "submitOperation"
    /\ call.pc = "thrown"
    /\ call.attempt >= 1

\* C3: createOperation reads and updates the chain head in one step, so the
\* EORs of one client form a single line in call order: no two of them carry
\* the same prev_chain_hash, also when they are built while an API call is
\* waiting.
C3_OneLine ==
    /\ \A i, j \in 1..Len(ops) :
          i < j => Field(eors[i], "prev_chain_hash") # Field(eors[j], "prev_chain_hash")
    /\ \A i \in 1..Len(ops) :
          Field(eors[i], "prev_chain_hash") =
              IF i = 1 THEN ZERO_CHAIN_HASH ELSE ChainHashOf(eors[i - 1])

\* two EORs were built while one API call was waiting
C3_BuiltWhileSuspended ==
    /\ call.pc \in {"fetch", "sleep"}
    /\ suspendedBuilds >= 2

---------------------------------------------------------------------------
(* The record *)

\* C4: payload_hash is the base64url SHA-256 of the canonical form of the
\* payload the EOR carries; an omitted payload is carried as null and hashed
\* as the text null.
C4_PayloadHash ==
    \A i \in 1..Len(ops) :
        LET eor == eors[i]
            given == ops[i].params.payload
        IN /\ Field(eor, "payload_hash") =
                 base64urlEncode(Sha256(Utf8(jcsCanonicalise(Get(eor, "payload")))))
           /\ given \in {Undefined, Null} =>
                 /\ Get(eor, "payload") = Null
                 /\ Field(eor, "payload_hash") = base64urlEncode(Sha256(Utf8("null")))
           /\ given \notin {Undefined, Null} => Get(eor, "payload") = given

\* one EOR was built without a payload and one from an object payload
C4_OmittedAndObject ==
    /\ \E i \in 1..Len(ops) : ops[i].params.payload = Undefined
    /\ \E i \in 1..Len(ops) : ops[i].params.payload.t = "object"

\* C5: the signature is the Ed25519 signature, base64url-encoded, of the
\* canonical form of the EOR without its signature field, made with the
\* configured private key; it verifies under the key getPublicKey() returns.
C5_SignatureVerifies ==
    \A i \in 1..Len(ops) :
        LET message == Utf8(jcsCanonicalise(WithoutSignature(eors[i])))
        IN \E raw \in {Ed25519Sign(privateKey, message)} :
              /\ Field(eors[i], "signature") = base64urlEncode(raw)
              /\ getPublicKey = base64urlEncode(PublicOf(privateKey))
              /\ Ed25519Verify(PublicOf(privateKey), message, raw)

\* an EOR was signed whose payload has keys out of order and an undefined one
C5_SignedObjectPayload ==
    \E i \in 1..Len(ops) :
        /\ ops[i].params.payload.t = "object"
        /\ Get(eors[i], "signature").t = "string"

---------------------------------------------------------------------------
(* The transport *)

\* the error object of the last answer's body, Undefined when the body is no
\* JSON or holds none
ErrorObjectOf(res) ==
    IF /\ res.body.json
       /\ res.body.value.t = "object"
       /\ \E i \in 1..Len(res.body.value.v) :
             /\ res.body.value.v[i][1] = "error"
             /\ res.body.value.v[i][2].t = "object"
    THEN Get(res.body.value, "error")
    ELSE Undefined

\* the last attempt was answered with a 4xx other than 429
ClientErrorAnswer ==
    /\ call.res.kind = "response"
    /\ call.res.status >= 400 /\ call.res.status <= 499
    /\ call.res.status # 429

\* the last attempt was answered with 429 or 5xx
RetryableAnswer ==
    /\ call.res.kind = "response"
    /\ (call.res.status = 429 \/ call.res.status >= 500)

\* the last attempt was answered with 2xx
SuccessAnswer ==
    /\ call.res.kind = "response"
    /\ call.res.status >= 200 /\ call.res.status <= 299

\* C6: a call of a transport operation on a client configured with
\* maxRetries = k issues at least one and at most k + 1 HTTP requests, one per
\* attempt, whatever the server answers.
C6_RequestCount ==
    call.pc # "idle" =>
        /\ call.nreq >= 1
        /\ call.nreq <= maxRetries + 1
        /\ call.op \in RequestOps /\ call.pc \in {"fetch", "sleep"} =>
              call.nreq = call.attempt + 1

\* a call under the default maxRetries failed after all its four requests
C6_AllAttemptsUsed ==
    /\ config.maxRetries = Undefined
    /\ call.pc = "thrown"
    /\ call.nreq = DEFAULT_MAX_RETRIES + 1

\* C7: when an attempt is answered with a 4xx other than 429 the call ends
\* there: no further request is issued, and the ElydoraError built from that
\* response (its status, and the code and request_id of its error object) is
\* what the caller gets, at every attempt index and for every maxRetries.
C7_ClientErrorNotRetried ==
    ClientErrorAnswer =>
        /\ call.pc = "thrown"
        /\ call.nreq = call.attempt + 1
        /\ call.out.threw
        /\ IsElydoraError(call.out.value)
        /\ call.out.value.statusCode = call.res.status
        /\ \A error \in {ErrorObjectOf(call.res)} \ {Undefined} :
              /\ call.out.value.code = Get(error, "code")
              /\ call.out.value.requestId = Get(error, "request_id")

\* a retried call was answered with a 400 that carries an error object
C7_ClientErrorAfterRetry ==
    /\ ClientErrorAnswer
    /\ call.res.body.json
    /\ call.attempt >= 1

\* C8: an attempt n < maxRetries that ends in 429, 5xx or a transport error is
\* followed, after the delay, by attempt n + 1; the call returns the parsed
\* body of the first attempt answered with 2xx and issues no request after it.
C8_RetryUntilFirstSuccess ==
    /\ /\ call.op \in RequestOps
       /\ call.attempt < maxRetries
       /\ RetryableAnswer \/ call.res.kind = "rejected"
       => call.pc = "sleep"
    /\ SuccessAnswer =>
          /\ call.pc \in {"returned", "thrown"}
          /\ call.nreq = call.attempt + 1
          /\ call.res.body.json =>
                /\ call.pc = "returned"
                /\ call.out = Returned(call.res.body.value)

\* decimal digits only
IsIntegerSeconds(h) ==
    /\ h # Null
    /\ Len(h.v) >= 1
    /\ \A i \in 1..Len(h.v) : IsDigit(h.v[i])

\* the number a string of decimal digits denotes
RECURSIVE DecimalValue(_)
DecimalValue(chars) ==
    IF Len(chars) = 0 THEN 0
    ELSE 10 * DecimalValue(SubSeq(chars, 1, Len(chars) - 1))
            + DigitValue(chars[Len(chars)])

\* min(1000 x 2^(n-1), 10000) for the attempt n that follows the pending sleep
ExpectedBackoff ==
    LET n == call.attempt + 1
        grown == 1000 * 2 ^ (n - 1)
    IN IF grown <= 10000 THEN grown ELSE 10000

\* C9: the delay before attempt n >= 1 is the Retry-After seconds times 1000
\* when the preceding 429 or 5xx response carried an integer Retry-After, and
\* min(1000 x 2^(n-1), 10000) ms when it carried none or the preceding
\* attempt ended in a transport error.
C9_RetryDelay ==
    call.pc = "sleep" =>
        /\ RetryableAnswer /\ IsIntegerSeconds(call.res.retryAfter) =>
              call.delayMs = Num(DecimalValue(call.res.retryAfter.v) * 1000)
        /\ RetryableAnswer /\ call.res.retryAfter = Null =>
              call.delayMs = Num(ExpectedBackoff)
        /\ call.res.kind = "rejected" =>
              call.delayMs = Num(ExpectedBackoff)

\* the fifth attempt asked for 120 seconds, where the backoff is at its cap
C9_RetryAfterAtTheCap ==
    /\ call.pc = "sleep"
    /\ call.attempt = 4
    /\ RetryableAnswer
    /\ call.res.retryAfter = RetryAfterSeconds

\* C10: a Retry-After that is not an integer number of seconds is ignored:
\* the delay before the next attempt n is min(1000 x 2^(n-1), 10000) ms.
C10_OtherRetryAfterIgnored ==
    /\ call.pc = "sleep"
    /\ RetryableAnswer
    /\ call.res.retryAfter # Null
    /\ ~IsIntegerSeconds(call.res.retryAfter)
    => call.delayMs = Num(ExpectedBackoff)

\* C11: when every one of the 1 + maxRetries attempts of a call has failed,
\* the caller gets the error of the last attempt: an ElydoraError with the
\* last response's status when that attempt was answered with 429 or 5xx, the
\* last attempt's transport error when fetch rejected; never an earlier error.
C11_LastErrorSurfaced ==
    /\ call.op \in RequestOps
    /\ call.pc = "thrown"
    /\ call.attempt = maxRetries
    => /\ RetryableAnswer =>
             /\ IsElydoraError(call.out.value)
             /\ call.out.value.statusCode = call.res.status
             /\ call.out = handleResponse(call.res)
       /\ call.res.kind = "rejected" => call.out.value = call.res.error

\* a call failed on a timeout in an attempt that followed at least two others
C11_TimedOutAfterRetries ==
    /\ call.op \in RequestOps
    /\ call.pc = "thrown"
    /\ call.attempt = maxRetries
    /\ call.attempt >= 2
    /\ call.res = NetworkTimeout

IsTypedError(err) ==
    /\ err.name = "ElydoraError"
    /\ err.statusCode \in Nat
    /\ err.code.t = "string" /\ err.code.v \in ErrorCodes
    /\ err.message.t = "string"
    /\ err.requestId.t = "string"

\* C13: every error a transport operation raises to its caller, also after
\* retries and for transport failures, is an ElydoraError carrying an HTTP
\* status, a code of the taxonomy, a message and a request id.
C13_EveryErrorTyped ==
    call.pc = "thrown" => IsTypedError(call.out.value)

---------------------------------------------------------------------------
(* The headers *)

\* C14: every HTTP request the transport issues carries Accept:
\* application/json: those of the methods that go through request, of getJWKS
\* and of the static register and login, at every attempt.
C14_AcceptAlways ==
    call.pc = "fetch" => <<"Accept", "application/json">> \in call.headers

\* C15: once setToken(t) has been called, every request an instance method
\* starts afterwards carries Authorization: Bearer t for the latest t; before
\* any setToken no request carries an Authorization header.
C15_BearerAfterSetToken ==
    call.pc = "fetch" /\ call.op \notin StaticOps =>
        IF call.issuedUnder = Undefined
        THEN \A h \in call.headers : h[1] # "Authorization"
        ELSE \A value \in {"Bearer " \o call.issuedUnder.v} :
                /\ <<"Authorization", value>> \in call.headers
                /\ \A h \in call.headers : h[1] = "Authorization" => h[2] = value


---------------------------------------------------------------------------
(* The codec and the signer *)

\* value holds NaN, +Infinity or -Infinity, itself or at any depth
RECURSIVE ContainsNonFinite(_)
ContainsNonFinite(value) ==
    IF value.t \in {"NaN", "Infinity", "-Infinity"} THEN TRUE
    ELSE IF value.t = "array"
    THEN \E i \in 1..Len(value.v) : ContainsNonFinite(value.v[i])
    ELSE IF value.t = "object"
    THEN \E i \in 1..Len(value.v) : ContainsNonFinite(value.v[i][2])
    ELSE FALSE

\* the call failed with an ElydoraError whose code is VALIDATION_ERROR
FailedValidation(out) ==
    /\ out.threw
    /\ out.value.name = "ElydoraError"
    /\ out.value.code = Str("VALIDATION_ERROR")

\* C16: jcsCanonicalise and computePayloadHash fail with a VALIDATION_ERROR on
\* every value that holds a non-finite number at any depth, and return no
\* string for it.
C16_NonFiniteRejected ==
    probe.fn \in {"jcsCanonicalise", "computePayloadHash"}
      /\ ContainsNonFinite(probe.input)
    => FailedValidation(probe.out)


\* C17: signEd25519 and derivePublicKey fail with a VALIDATION_ERROR whenever
\* the private key does not decode to exactly 32 bytes, and do not throw for
\* a seed of 32 bytes.
C17_SeedLengthValidated ==
    probe.fn \in {"signEd25519", "derivePublicKey"} =>
        IF probe.input.privateKey.bytes = 32
        THEN ~probe.out.threw
        ELSE FailedValidation(probe.out)


\* string j comes before string k in UTF-16 code-unit order: at the first
\* index where they differ j has ended or holds the smaller code unit
Utf16Before(j, k) ==
    \E i \in 1..(Len(Utf16[k])) :
        /\ \A h \in 1..(i - 1) : h <= Len(Utf16[j]) /\ Utf16[j][h] = Utf16[k][h]
        /\ \/ i > Len(Utf16[j])
           \/ Utf16[j][i] < Utf16[k][i]

\* the values that differ from value only by the insertion order of the keys
\* of its objects, at any depth
RECURSIVE Permuted(_)
Permuted(value) ==
    IF value.t = "object"
    THEN LET n == Len(value.v)
             children == UNION { Permuted(value.v[i][2]) : i \in 1..n }
         IN  { Obj([i \in 1..n |-> <<value.v[pc[1][i]][1], pc[2][i]>>]) :
                 pc \in { qd \in Permutations(1..n) \X [1..n -> children] :
                            \A i \in 1..n : qd[2][i] \in Permuted(value.v[qd[1][i]][2]) } }
    ELSE IF value.t = "array"
    THEN LET n == Len(value.v)
             children == UNION { Permuted(value.v[i]) : i \in 1..n }
         IN  { Arr(c) : c \in { d \in [1..n -> children] :
                                  \A i \in 1..n : d[i] \in Permuted(value.v[i]) } }
    ELSE {value}

\* the keys of obj whose value is not undefined, in ascending UTF-16
\* code-unit order
AscendingKeys(obj) ==
    LET written == { obj.v[i][1] : i \in { h \in 1..Len(obj.v) : obj.v[h][2] # Undefined } }
        n == Cardinality(written)
    IN  CHOOSE ks \in [1..n -> written] :
            \A i, j \in 1..n : i < j => Utf16Before(ks[i], ks[j])

\* the JSON text of value in which the keys of every object are written in
\* ascending UTF-16 code-unit order
RECURSIVE KeysAscendingForm(_)
KeysAscendingForm(value) ==
    IF value.t = "object"
    THEN LET ks == AscendingKeys(value)
         IN  "{" \o Join([i \in 1..Len(ks) |->
                            JSONStringifyString(ks[i]) \o ":"
                                \o KeysAscendingForm(Get(value, ks[i]))], ",") \o "}"
    ELSE IF value.t = "array"
    THEN "[" \o Join([i \in 1..Len(value.v) |-> KeysAscendingForm(value.v[i])], ",") \o "]"
    ELSE jcsCanonicalise(value)

\* what the probed function returns for value
ProbedResult(value) ==
    IF probe.fn = "jcsCanonicalise" THEN jcsCanonicalise(value)
    ELSE computePayloadHash(value)

\* C18: jcsCanonicalise and computePayloadHash give the same result for a
\* value and for every value obtained from it by permuting the insertion
\* order of the keys of its objects at any depth, and the keys of each object
\* are written in ascending UTF-16 code-unit order.
C18_KeyOrderIndependent ==
    probe.fn \in {"jcsCanonicalise", "computePayloadHash"} =>
        /\ \A other \in Permuted(probe.input) : ProbedResult(other) = probe.out.value.v
        /\ probe.out.value.v =
              IF probe.fn = "jcsCanonicalise" THEN KeysAscendingForm(probe.input)
              ELSE sha256Base64url(KeysAscendingForm(probe.input))

\* a hash was computed for an object whose keys were inserted in an order
\* that is ascending by code point and descending by UTF-16 code unit
C18_SurrogateKeyReordered ==
    /\ probe.fn = "computePayloadHash"
    /\ probe.input.t = "object"
    /\ ObjectKeys(probe.input) = <<"U+FB01", "U+1F600">>
    /\ ~probe.out.threw


\* obj without its i-th property
WithoutProperty(obj, i) ==
    Obj([h \in 1..(Len(obj.v) - 1) |-> IF h < i THEN obj.v[h] ELSE obj.v[h + 1]])

\* obj with the value of its i-th property replaced
WithValue(obj, i, value) ==
    Obj([obj.v EXCEPT ![i] = <<obj.v[i][1], value>>])

\* the text of an object: its keys that hold a value, ascending, a null
\* written as "key":null
MappingText(obj) ==
    LET ks == AscendingKeys(obj)
    IN  "{" \o Join([i \in 1..Len(ks) |->
                       JSONStringifyString(ks[i]) \o ":"
                           \o (IF Get(obj, ks[i]) = Null THEN "null"
                               ELSE jcsCanonicalise(Get(obj, ks[i])))], ",") \o "}"

\* C19: in jcsCanonicalise of an object a key whose value is undefined is left
\* out, the output being that of the object without the key, and a key whose
\* value is null is written as "key":null; the canonical strings and the
\* payload hashes of the two cases differ.
C19_UndefinedOmittedNullKept ==
    probe.fn \in {"jcsCanonicalise", "computePayloadHash"} /\ probe.input.t = "object" =>
        /\ \A i \in 1..Len(probe.input.v) :
              /\ probe.input.v[i][2] = Undefined
                    => ProbedResult(WithoutProperty(probe.input, i)) = probe.out.value.v
              /\ probe.input.v[i][2] = Null
                    => ProbedResult(WithValue(probe.input, i, Undefined)) # probe.out.value.v
        /\ probe.out.value.v =
              IF probe.fn = "jcsCanonicalise" THEN MappingText(probe.input)
              ELSE sha256Base64url(MappingText(probe.input))

\* an object holding an undefined and a null was canonicalised
C19_UndefinedBesideNull ==
    /\ probe.fn = "jcsCanonicalise"
    /\ probe.input.t = "object"
    /\ \E i, j \in 1..Len(probe.input.v) :
          probe.input.v[i][2] = Undefined /\ probe.input.v[j][2] = Null
    /\ probe.out = Returned(Str("{\"b\":null}"))


---------------------------------------------------------------------------
(* The operation ids *)

\* the six bytes of the 48-bit timestamp an operation id starts with
TimestampPrefix(operationId) ==
    CHOOSE prefix \in { SubSeq(uuidv7Bytes(Millis(now), random), 1, 6) :
                          now \in Times, random \in UuidRandoms } :
        \E now \in Times, random \in UuidRandoms :
            /\ uuidv7(Millis(now), random) = operationId
            /\ SubSeq(uuidv7Bytes(Millis(now), random), 1, 6) = prefix

\* big-endian comparison of two timestamps of six bytes
TimestampLess(earlier, later) ==
    \E i \in 1..6 :
        /\ \A h \in 1..(i - 1) : earlier[h] = later[h]
        /\ earlier[i] < later[i]

\* n \div 256^k
RECURSIVE DivBy256(_, _)
DivBy256(n, k) == IF k = 0 THEN n ELSE DivBy256(n \div 256, k - 1)

\* the six bytes of a clock reading, most significant first
BigEndian48(now) == [i \in 1..6 |-> DivBy256(now, 6 - i) % 256]

\* the operation_id of the i-th EOR built
OperationIdOf(i) == Field(ops[i].eor, "operation_id")

\* C20 as claimed: of two EORs returned by consecutive createOperation calls
\* of one client, the later has the strictly greater 48-bit timestamp prefix
\* in its operation_id, also when both are built in the same millisecond.
C20_OperationIdsIncrease ==
    \A i \in 1..(Len(ops) - 1) :
        TimestampLess(TimestampPrefix(OperationIdOf(i)),
                      TimestampPrefix(OperationIdOf(i + 1)))

\* C20: the 48-bit timestamp prefix of every operation_id is the clock
\* reading of its build, most significant byte first; of two consecutive EORs
\* the later has the strictly greater prefix exactly when its build read a
\* later clock, and builds of the same millisecond get equal prefixes.
C20_PrefixFollowsClock ==
    /\ \A i \in 1..Len(ops) :
          TimestampPrefix(OperationIdOf(i)) = BigEndian48(ops[i].env.uuidNow)
    /\ \A i \in 1..(Len(ops) - 1) :
          /\ TimestampLess(TimestampPrefix(OperationIdOf(i)),
                           TimestampPrefix(OperationIdOf(i + 1)))
                <=> ops[i].env.uuidNow < ops[i + 1].env.uuidNow
          /\ ops[i].env.uuidNow = ops[i + 1].env.uuidNow
                => TimestampPrefix(OperationIdOf(i)) = TimestampPrefix(OperationIdOf(i + 1))

\* two EORs were built in the same millisecond
C20_SameMillisecond ==
    /\ Len(ops) = 2
    /\ ops[1].env.uuidNow = ops[2].env.uuidNow
    /\ TimestampPrefix(OperationIdOf(1)) = TimestampPrefix(OperationIdOf(2))


\* byte i of 1..6 of a clock reading, most significant first
ClockByte(now, i) ==
    IF i <= 3 THEN DivBy256(now.hi, 3 - i) % 256 ELSE DivBy256(now.lo, 6 - i) % 256

\* the 16 bytes of a version 7 UUID for a clock reading and ten random bytes:
\* 48 bits of time, the nibble 7, 12 random bits, the bits 10, 62 random bits
Version7Bytes(now, random) ==
    [i \in 1..16 |->
        IF i <= 6 THEN ClockByte(now, i)
        ELSE IF i = 7 THEN 7 * 16 + (random[1] % 16)
        ELSE IF i = 9 THEN 2 * 64 + (random[3] % 64)
        ELSE random[i - 6]]

\* the 8-4-4-4-12 lowercase hexadecimal form of 16 bytes
RECURSIVE CanonicalForm(_, _)
CanonicalForm(bytes, i) ==
    IF i > 16 THEN ""
    ELSE HexDigits[(bytes[i] \div 16) + 1] \o HexDigits[(bytes[i] % 16) + 1]
            \o (IF i \in {4, 6, 8, 10} THEN "-" ELSE "")
            \o CanonicalForm(bytes, i + 1)

\* C21: for every clock reading of 0..2^48-1 and every ten random bytes,
\* uuidv7 returns the identifier whose first 48 bits are the reading, most
\* significant byte first, whose version nibble is 7 and variant bits are 10,
\* and whose other 74 bits are those of the random bytes.
C21_Uuidv7Layout ==
    probe.fn = "uuidv7" =>
        probe.out = Returned(Str(CanonicalForm(
                        Version7Bytes(probe.input.now, probe.input.random), 1)))

\* an identifier was made at the last millisecond of the 48 bits from random
\* bytes that are all ones
C21_LastMillisecond ==
    /\ probe.fn = "uuidv7"
    /\ probe.input.now = [hi |-> 16777215, lo |-> 16777215]
    /\ probe.out = Returned(Str("ffffffff-ffff-7fff-bfff-ffffffffffff"))


---------------------------------------------------------------------------
(* Cancellation and termination *)

\* C22: once the caller has cancelled a call that waited on a fetch or on a
\* retry delay, no further HTTP request is issued for the call and it ends
\* with a transport error, the chain head being what it was at the
\* construction of this client, which builds nothing here.
C22_CancelAborts ==
    call.cancelledAt # 0 =>
        /\ call.nreq = call.cancelledAt
        /\ call.pc # "returned"
        /\ call.pc = "thrown" => call.out.value.name # "ElydoraError"
        /\ prevChainHash = ZERO_CHAIN_HASH


\* C25: a request of a call is followed by another request of the same call
\* only if it ended in a transport error or was answered with 429 or 5xx;
\* after a 2xx answer no further request is sent, whatever the body.
C25_NoRequestAfterSuccess ==
    [][call.pc = "sleep" /\ call'.pc = "fetch"
          => call.res.kind = "rejected" \/ RetryableAnswer]_vars


\* C26: if every fetch settles and every retry sleep ends, every call of a
\* transport operation returns a result or raises an error, for every
\* maxRetries of 0..MaxRetriesCfg and every sequence of answers and transport
\* errors.
C26_EveryCallEnds ==
    call.pc \in {"fetch", "sleep"} ~> call.pc \in {"returned", "thrown"}

\* a call under the largest maxRetries ended after a transport error at every
\* attempt
C26_EndedAfterAllRetries ==
    /\ config.maxRetries = Num(MaxRetriesCfg)
    /\ call.pc = "thrown"
    /\ call.nreq = MaxRetriesCfg + 1
    /\ call.res.kind = "rejected"


---------------------------------------------------------------------------
(* Failed builds *)

\* the chain hash the i-th EOR has to link to
LinkTarget(i) == IF i = 1 THEN ZERO_CHAIN_HASH ELSE ChainHashOf(eors[i - 1])

\* the createOperation calls that had failed when the i-th EOR was started,
\* none before the first
ThrowsUpTo(i) == IF i = 0 THEN 0 ELSE ops[i].throwsBefore

\* C27: a createOperation call that throws, in the canonicalisation of the
\* payload or in the signature, leaves the chain head as it was, and the next
\* EOR built links to the EOR built before the failed call, or to genesis.
C27_FailedBuildKeepsHead ==
    /\ [][createThrows' # createThrows
            => prevChainHash' = prevChainHash /\ ops' = ops]_vars
    /\ [](\A i \in 1..Len(ops) :
            ThrowsUpTo(i) > ThrowsUpTo(i - 1)
                => Field(eors[i], "prev_chain_hash") = LinkTarget(i))

\* a build failed between two builds that succeeded
C27_FailureBetweenBuilds ==
    /\ Len(ops) = 2
    /\ ops[1].throwsBefore = 0
    /\ ops[2].throwsBefore = 1


---------------------------------------------------------------------------
(* The files of the installer *)

\* the install command of the CLI ran to its end
InstallCompleted == fs.last.cmd = "cli install" /\ ~ fs.last.threw

\* C23: after an install that succeeded the private key file has mode 0600,
\* also when a file with another mode was at its path before.
C23_KeyFileOwnerOnly ==
    InstallCompleted => fs.key.exists /\ fs.key.mode = <<6, 0, 0>>

\* C24: after an install that succeeded the agent config file, which holds
\* the identifiers of the agent and the bearer token if one was given, has
\* mode 0600.
C24_ConfigFileOwnerOnly ==
    InstallCompleted => fs.cfg.exists /\ fs.cfg.mode = <<6, 0, 0>>


---------------------------------------------------------------------------
(* The hook lists of the host tool *)

\* value[key] is a string with the text elydora in it
HasElydoraText(value, key) ==
    /\ OptionalGet(value, key).t = "string"
    /\ OptionalGet(value, key).v \in CommandsWithElydora

\* an Elydora entry: one of its command strings, its own or those of its
\* nested hooks, contains elydora
IsElydoraEntry(entry) ==
    \E key \in {"command", "bash", "powershell"} :
       \/ HasElydoraText(entry, key)
       \/ /\ OptionalGet(entry, "hooks").t = "array"
          /\ \E j \in 1..Len(OptionalGet(entry, "hooks").v) :
                HasElydoraText(OptionalGet(entry, "hooks").v[j], key)

\* the hook list under key in the host tool's config, empty if the file
\* cannot be read or has no such list
HookList(files, key) ==
    LET list == OptionalGet(OptionalGet(files.host.text.value, "hooks"), key)
    IN IF files.host.exists /\ files.host.text.json /\ list.t = "array"
       THEN list.v
       ELSE <<>>

\* the entries of a list that are not Elydora's, in their order
OtherEntries(files, key) ==
    SelectSeq(HookList(files, key), LAMBDA entry : ~ IsElydoraEntry(entry))

\* the Elydora entries of a list, in their order
ElydoraEntries(files, key) ==
    SelectSeq(HookList(files, key), LAMBDA entry : IsElydoraEntry(entry))

\* C28: install and uninstall keep, in their order, the entries of the two
\* hook lists that are not Elydora entries, whatever their shape: they
\* remove and add Elydora entries only.
C28_OtherEntriesKept ==
    [][\A key \in {PreKey(fs.agent), PostKey(fs.agent)} :
          OtherEntries(fs', key) = OtherEntries(fs, key)]_vars


\* a plugin install, called by the CLI or directly, returned
PluginInstallReturned == fs.last.cmd \in {"install", "cli install"} /\ ~ fs.last.threw

\* C29: after every install of a plugin that returned, from any config file
\* and after any number of earlier installs, each of the two hook lists has
\* exactly one Elydora entry: the one for the guard script, in the pre-tool
\* list, and for the hook script, in the post-tool list, of that install.
C29_OneElydoraEntry ==
    PluginInstallReturned =>
        /\ ElydoraEntries(fs, PreKey(fs.agent))
              = <<PushedEntry(fs.agent, fs.last.guardScriptPath)>>
        /\ ElydoraEntries(fs, PostKey(fs.agent))
              = <<PushedEntry(fs.agent, fs.last.hookScriptPath)>>


---------------------------------------------------------------------------
(* Uninstall *)

\* the uninstall command of the CLI ran to its end
UninstallCompleted == fs.last.cmd = "cli uninstall" /\ ~ fs.last.threw

=============================================================================
